---- MODULE Spec2Model ----
(***************************************************************************)
(* Verification model of the HSK syllabus vocabulary pipeline:             *)
(*   stage 2  (stages/stage2_number.py)  pinyin_numbered and the           *)
(*            Hanzi-aligned segmentation search,                           *)
(*   stage 3  (stages/stage3_enrich.py)  enrich_with_cedict and the        *)
(*            matching helpers of cedict/matcher.py,                       *)
(*   the dictionary indices of cedict/repository.py.                       *)
(*                                                                         *)
(* Text is modelled as sequences of one-character strings.  A tone-marked  *)
(* letter is written as the letter followed by its tone ("a4" is a-grave,  *)
(* "n2" is n-acute); Hanzi are written in capitals ("A", "B", "ER" for the *)
(* diminutive suffix U+513F, "YI" for U+4E00 and "BU" for U+4E0D).         *)
(***************************************************************************)
EXTENDS Naturals, Integers, Sequences, FiniteSets, TLC

-----------------------------------------------------------------------------
(* Bounds of the model *)

\* longest raw pinyin string (in characters) given to pinyin_numbered
MaxLen == 4

\* the same, where the inventory order is left open (SpecOrder)
MaxLenOrder == 3

-----------------------------------------------------------------------------
(* Alphabets *)

Letters == {"a", "n", "r"}
Glyphs == {"a", "a4", "n", "n2", "r", " ", "/"}
Hanzi == {"A", "B", "ER", "YI", "BU"}
ER == "ER"

\* a table whose entry for the marked n names the wrong base letter
ToneMarksTypo == [g \in {"a4", "n2"} |-> IF g = "a4" THEN <<"a", 4>> ELSE <<"a", 2>>]

\* stage2_number.py TONE_MARKS, restricted to the glyphs of the model
TONE_MARKS == [g \in {"a4", "n2"} |-> IF g = "a4" THEN <<"a", 4>> ELSE <<"n", 2>>]

SEPARATOR_CHARS == {"-", "/", "'"}
PRESERVE_SEPARATORS == {"/"}
IsSpace(ch) == ch = " "

\* CJK_RE.fullmatch(char)
IsCJK(ch) == ch \in Hanzi

\* syllables, as letter sequences
sA == <<"a">>
sN == <<"n">>
sR == <<"r">>
sAN == <<"a", "n">>
sNA == <<"n", "a">>
sAR == <<"a", "r">>
sNG == <<"n", "g">>
sM == <<"m">>
sHM == <<"h", "m">>
sHNG == <<"h", "n", "g">>
sNAN == <<"n", "a", "n">>
sANR == <<"a", "n", "r">>
sNAR == <<"n", "a", "r">>
sNANR == <<"n", "a", "n", "r">>

EXTRA_VALID_SYLLABLES == {sM, sN, sNG, sHM, sHNG, sR}

\* a numbered syllable "na4" is [base |-> <<"n","a">>, tone |-> 4]
Syl(b, t) == [base |-> b, tone |-> t]
R5 == Syl(sR, 5)

\* syllable[:-1] of a numbered syllable, and of each syllable of a sequence
BaseOf(s) == s.base
Bases(seq) == [i \in 1..Len(seq) |-> BaseOf(seq[i])]

RECURSIVE Flatten(_)
Flatten(ss) == IF ss = <<>> THEN <<>> ELSE Head(ss) \o Flatten(Tail(ss))

Last(s) == s[Len(s)]
SeqRange(s) == {s[i] : i \in 1..Len(s)}

RECURSIVE SeqsUpTo(_, _)
SeqsUpTo(S, n) ==
    IF n = 0 THEN {<<>>}
    ELSE LET shorter == SeqsUpTo(S, n - 1)
         IN  shorter \cup {Append(s, x) : s \in {t \in shorter : Len(t) = n - 1}, x \in S}

-----------------------------------------------------------------------------
(* Syllable inventory: _collect_valid_syllables *)

\* the tone-free syllables read from the romanization lexicon (pypinyin)
LexiconSyllables == {sA, sAN, sNA, sNAN}

\* extended = {s + "r" for s in syllables if s and not s.endswith("r")}
InventorySet ==
    LexiconSyllables
      \cup {Append(s, "r") : s \in {t \in LexiconSyllables : t # <<>> /\ Last(t) # "r"}}
      \cup EXTRA_VALID_SYLLABLES

\* rank of a syllable among those of its length, a stand-in for the iteration
\* order of the Python set, which differs from run to run
RECURSIVE LexLess(_, _)
LexLess(s, t) ==
    IF s = <<>> THEN t # <<>>
    ELSE IF t = <<>> THEN FALSE
    ELSE LET rk(c) == CHOOSE k \in 1..6 : <<"a", "g", "h", "m", "n", "r">>[k] = c
         IN  IF Head(s) = Head(t) THEN LexLess(Tail(s), Tail(t))
             ELSE rk(Head(s)) < rk(Head(t))

\* a sort that forgets the length key: set order alone
BeforeIgnoringLength(s, t, tie) ==
    s # t /\ (IF tie = "fwd" THEN LexLess(s, t) ELSE LexLess(t, s))

\* key=len, reverse=True; ties in set order (tie = "fwd" or "rev")
Before(s, t, tie) ==
    \/ Len(s) > Len(t)
    \/ Len(s) = Len(t) /\ s # t /\ (IF tie = "fwd" THEN LexLess(s, t) ELSE LexLess(t, s))

RECURSIVE SortSyllables(_, _)
SortSyllables(S, tie) ==
    IF S = {} THEN <<>>
    ELSE LET first == CHOOSE s \in S : \A t \in S \ {s} : Before(s, t, tie)
         IN  <<first>> \o SortSyllables(S \ {first}, tie)

_collect_valid_syllables(tie) == SortSyllables(InventorySet, tie)

\* the inventories two runs of the program may import
TieOrders == {"fwd", "rev"}
Inventories == {_collect_valid_syllables(tie) : tie \in TieOrders}

-----------------------------------------------------------------------------
(* Tokenizing and normalizing *)

\* one character of a token: (base letter, tone mark), 0 when unmarked
ParseChar(ch) ==
    IF ch \in DOMAIN TONE_MARKS THEN [b |-> TONE_MARKS[ch][1], t |-> TONE_MARKS[ch][2]]
    ELSE [b |-> (IF ch = "v" THEN "u:" ELSE ch), t |-> 0]

\* _segment_pinyin_with_hanzi.parse_token
parse_token(token) ==
    [base |-> [i \in 1..Len(token) |-> ParseChar(token[i]).b],
     tone_marks |-> [i \in 1..Len(token) |-> ParseChar(token[i]).t]]

\* the normalized_parts loop of pinyin_numbered
NormalizedPart(token) == [i \in 1..Len(token) |-> ParseChar(token[i]).b]

\* _tokenize_pinyin: (token, is_separator) pairs
RECURSIVE TokenizeFrom(_, _, _, _)
TokenizeFrom(pinyin, i, buf, tokens) ==
    LET flushed == IF buf # <<>> THEN Append(tokens, [tok |-> buf, sep |-> FALSE]) ELSE tokens
    IN  IF i > Len(pinyin) THEN flushed
        ELSE LET ch == pinyin[i]
             IN  IF IsSpace(ch) \/ ch \in SEPARATOR_CHARS
                 THEN TokenizeFrom(pinyin, i + 1, <<>>,
                        IF ch \in PRESERVE_SEPARATORS
                        THEN Append(flushed, [tok |-> <<ch>>, sep |-> TRUE])
                        ELSE flushed)
                 ELSE TokenizeFrom(pinyin, i + 1, Append(buf, ch), tokens)

_tokenize_pinyin(pinyin) == TokenizeFrom(pinyin, 1, <<>>, <<>>)

\* str.split("/")
RECURSIVE SplitSlash(_, _, _)
SplitSlash(s, i, cur) ==
    IF i > Len(s) THEN <<cur>>
    ELSE IF s[i] = "/" THEN <<cur>> \o SplitSlash(s, i + 1, <<>>)
    ELSE SplitSlash(s, i + 1, Append(cur, s[i]))

\* str.strip()
RECURSIVE Strip(_)
Strip(s) ==
    IF s = <<>> THEN s
    ELSE IF IsSpace(Head(s)) THEN Strip(Tail(s))
    ELSE IF IsSpace(Last(s)) THEN Strip(SubSeq(s, 1, Len(s) - 1))
    ELSE s

SelectNonEmpty(ss) == SelectSeq(ss, LAMBDA p : p # <<>>)

\* a split that keeps the first alternate only
FirstVariantOnly(pinyin) ==
    LET parts == SplitSlash(pinyin, 1, <<>>)
        kept == SelectNonEmpty([i \in 1..Len(parts) |-> Strip(parts[i])])
    IN  IF kept = <<>> THEN kept ELSE <<Head(kept)>>

\* variants = [part.strip() for part in pinyin.split("/") if part.strip()]
Variants(pinyin) ==
    LET parts == SplitSlash(pinyin, 1, <<>>)
    IN  SelectNonEmpty([i \in 1..Len(parts) |-> Strip(parts[i])])

\* tokens = [token for token, is_separator in _tokenize_pinyin(variant) if not is_separator]
VariantTokens(variant) ==
    LET pairs == SelectSeq(_tokenize_pinyin(variant), LAMBDA p : ~p.sep)
    IN  [i \in 1..Len(pairs) |-> pairs[i].tok]

\* _extract_hanzi_chars
_extract_hanzi_chars(word) == SelectSeq(word, IsCJK)

-----------------------------------------------------------------------------
(* Dictionary repository: cedict/repository.py *)

\* a CedictEntry
Entry(w, toks, d) == [word |-> w, pinyin_tokens |-> toks, definition |-> d]

InMap(m, k) == k \in DOMAIN m
MapGet(m, k, default) == IF k \in DOMAIN m THEN m[k] ELSE default
MapAdd(m, k, v) == IF k \in DOMAIN m THEN [m EXCEPT ![k] = @ \cup {v}] ELSE m @@ (k :> {v})

\* first loop of hanzi_syllable_map: single-character entries
RECURSIVE SingleCharPass(_, _)
SingleCharPass(entries, mapping) ==
    IF entries = <<>> THEN mapping
    ELSE LET e == Head(entries)
         IN  SingleCharPass(Tail(entries),
                IF Len(e.word) = 1 /\ Len(e.pinyin_tokens) = 1
                THEN MapAdd(mapping, e.word[1], e.pinyin_tokens[1])
                ELSE mapping)

MultiCharEntries(entries) ==
    SelectSeq(entries, LAMBDA e : ~(Len(e.word) = 1 /\ Len(e.pinyin_tokens) = 1)
                                  /\ Len(e.word) = Len(e.pinyin_tokens))

\* every syllable of a multi-character entry added, whatever the character has
RECURSIVE ZipPassAddingAll(_, _, _, _)
ZipPassAddingAll(word, toks, i, mapping) ==
    IF i > Len(word) THEN mapping
    ELSE ZipPassAddingAll(word, toks, i + 1, MapAdd(mapping, word[i], toks[i]))

\* for hanzi, syllable in zip(word, pinyin_tokens)
RECURSIVE ZipPass(_, _, _, _)
ZipPass(word, toks, i, mapping) ==
    IF i > Len(word) THEN mapping
    ELSE LET hanzi == word[i]
             syllable == toks[i]
         IN  ZipPass(word, toks, i + 1,
                IF ~InMap(mapping, hanzi) THEN MapAdd(mapping, hanzi, syllable)
                ELSE IF BaseOf(syllable) \notin {BaseOf(item) : item \in mapping[hanzi]}
                     THEN MapAdd(mapping, hanzi, syllable)
                     ELSE mapping)

RECURSIVE MultiCharPass(_, _)
MultiCharPass(multi, mapping) ==
    IF multi = <<>> THEN mapping
    ELSE MultiCharPass(Tail(multi),
            ZipPass(Head(multi).word, Head(multi).pinyin_tokens, 1, mapping))

\* the two characters left with what the entries give them
SandhiPassSkipped(mapping) == mapping

\* for char, base in {"YI": "yi", "BU": "bu"}: all five tones
SandhiPass(mapping) ==
    LET withYi == MapGet(mapping, "YI", {}) \cup {Syl(<<"y", "i">>, t) : t \in 1..5}
        withBu == MapGet(mapping, "BU", {}) \cup {Syl(<<"b", "u">>, t) : t \in 1..5}
    IN  [c \in DOMAIN mapping \cup {"YI", "BU"} |->
            IF c = "YI" THEN withYi ELSE IF c = "BU" THEN withBu ELSE mapping[c]]

hanzi_syllable_map(entries) ==
    SandhiPass(MultiCharPass(MultiCharEntries(entries), SingleCharPass(entries, <<>>)))

\* word -> set of numbered tuples
word_syllable_map(entries) ==
    [w \in {entries[i].word : i \in 1..Len(entries)} |->
        {entries[i].pinyin_tokens : i \in {j \in 1..Len(entries) : entries[j].word = w}}]

\* entries_for_word
entries_for_word(entries, word) == SelectSeq(entries, LAMBDA e : e.word = word)

\* a repository whose path names no file: reading entries, or any index built
\* from them, raises FileNotFoundError
MissingFile == [path_exists |-> FALSE]
FileExists(repo) == "entries" \in DOMAIN repo

\* a CedictRepository with its cached indices built
CedictRepository(entries) ==
    [entries |-> entries,
     hanzi_syllable_map |-> hanzi_syllable_map(entries),
     word_syllable_map |-> word_syllable_map(entries)]

-----------------------------------------------------------------------------
(* Segmentation and alignment: _segment_pinyin_with_hanzi *)

\* base.startswith(syllable, base_idx), base_idx counted from 0
StartsWith(base, syllable, base_idx) ==
    /\ base_idx + Len(syllable) <= Len(base)
    /\ \A k \in 1..Len(syllable) : base[base_idx + k] = syllable[k]

\* the tones of the whole token, whatever the span
TonesOfToken(tone_marks, base_idx, end_idx) ==
    {tone_marks[k] : k \in 1..Len(tone_marks)} \ {0}

\* tones = {tone for tone in tone_marks[base_idx:end_idx] if tone}
TonesIn(tone_marks, base_idx, end_idx) ==
    {tone_marks[k] : k \in (base_idx + 1)..end_idx} \ {0}

\* allowed = {char: hanzi_map[char]}; allowed_bases = {char: {s[:-1] for s in allowed[char]}}
allowed_bases(allowed, char) == {BaseOf(s) : s \in allowed[char]}

\* "for item in items: solutions.append(item); if len(solutions) > 1: return solutions"
\* ret tells that the early return was taken
RECURSIVE AppendEach(_, _)
AppendEach(solutions, items) ==
    IF items = <<>> THEN [solutions |-> solutions, ret |-> FALSE]
    ELSE LET appended == Append(solutions, Head(items))
         IN  IF Len(appended) > 1 THEN [solutions |-> appended, ret |-> TRUE]
             ELSE AppendEach(appended, Tail(items))

\* a partial solution of the per-token search: (syllables, next_char_idx)
Partial(syllables, next_char_idx) == [syllables |-> syllables, next |-> next_char_idx]

\* an erhua syllable left whole although both characters are consumed
ErhuaMerged(base_without_r, tone, rest) == <<Syl(Append(base_without_r, "r"), tone)>> \o rest

\* the split form of an erhua syllable: [f"{base_without_r}{tone}", "r5"] + rest
ErhuaSplit(base_without_r, tone, rest) == <<Syl(base_without_r, tone), R5>> \o rest

\* the unsplit form: [numbered] + rest
Unsplit(numbered, rest) == <<numbered>> \o rest

Prepend(front, rests) ==
    [i \in 1..Len(rests) |-> Partial(front \o rests[i].syllables, rests[i].next)]

\* the split never tried
ErhuaNeverPossible(ctx, char, base_without_r) == FALSE

\* erhua_possible = base_without_r and base_without_r in allowed_bases[char]
\*                  and "r5" in allowed["儿"]
ErhuaPossible(ctx, char, base_without_r) ==
    /\ base_without_r # <<>>
    /\ base_without_r \in allowed_bases(ctx.allowed, char)
    /\ R5 \in ctx.allowed[ER]

\* the candidate filter left out: every inventory syllable passes
AcceptedWithoutFilter(ctx, char, syllable) == TRUE

\* the candidate filter of one syllable for one character (the three ordinary
\* branches of the loop body): bare-nasal extras, the single-character bypass,
\* and the dictionary candidates of the character
Accepted(ctx, char, syllable) ==
    IF syllable \in EXTRA_VALID_SYLLABLES THEN TRUE
    ELSE IF Len(ctx.hanzi_chars) = 1 /\ syllable \notin allowed_bases(ctx.allowed, char) THEN TRUE
    ELSE syllable \in allowed_bases(ctx.allowed, char)

\* ctx: [base, tone_marks, hanzi_chars, allowed, valid]  (valid = VALID_SYLLABLES)
RECURSIVE TokenHelper(_, _, _)
RECURSIVE TokenLoop(_, _, _, _, _)

\* segment_token.helper(base_idx, char_idx); the memo table stores the value this
\* operator computes for the same key and is not modelled apart
TokenHelper(ctx, base_idx, char_idx) ==
    IF base_idx = Len(ctx.base) THEN <<Partial(<<>>, char_idx)>>
    ELSE IF char_idx >= Len(ctx.hanzi_chars) THEN <<>>
    ELSE TokenLoop(ctx, base_idx, char_idx, 1, <<>>)

\* "for syllable in VALID_SYLLABLES:", from the k-th syllable on
TokenLoop(ctx, base_idx, char_idx, k, solutions) ==
    IF k > Len(ctx.valid) THEN solutions
    ELSE
    LET syllable == ctx.valid[k]
        end_idx == base_idx + Len(syllable)
        tones == TonesIn(ctx.tone_marks, base_idx, end_idx)
        tone == IF tones = {} THEN 5 ELSE CHOOSE t \in tones : TRUE
        numbered == Syl(syllable, tone)
        char == ctx.hanzi_chars[char_idx + 1]
        base_without_r == SubSeq(syllable, 1, Len(syllable) - 1)
        erhua_context ==
            /\ Last(syllable) = "r"
            /\ char_idx + 1 < Len(ctx.hanzi_chars)
            /\ ctx.hanzi_chars[char_idx + 2] = ER
        erhua_possible == erhua_context /\ ErhuaPossible(ctx, char, base_without_r)
        after_two == TokenHelper(ctx, end_idx, char_idx + 2)
        split == AppendEach(solutions, Prepend(ErhuaSplit(base_without_r, tone, <<>>), after_two))
        preferred == after_two # <<>>
        merged == AppendEach(split.solutions, Prepend(Unsplit(numbered, <<>>), after_two))
        \* the solutions list as the ordinary branches find it
        carried == IF erhua_possible THEN merged.solutions ELSE solutions
        after_one == TokenHelper(ctx, end_idx, char_idx + 1)
        ordinary == AppendEach(carried, Prepend(Unsplit(numbered, <<>>), after_one))
    IN  IF ~StartsWith(ctx.base, syllable, base_idx)
            THEN TokenLoop(ctx, base_idx, char_idx, k + 1, solutions)
        ELSE IF Cardinality(tones) > 1
            THEN TokenLoop(ctx, base_idx, char_idx, k + 1, solutions)
        ELSE IF erhua_possible /\ split.ret THEN split.solutions
        ELSE IF erhua_possible /\ preferred THEN split.solutions
        ELSE IF erhua_possible /\ merged.ret THEN merged.solutions
        ELSE IF erhua_possible /\ merged.solutions # <<>> THEN merged.solutions
        ELSE IF Accepted(ctx, char, syllable)
            THEN IF ordinary.ret THEN ordinary.solutions
                 ELSE TokenLoop(ctx, base_idx, char_idx, k + 1, ordinary.solutions)
        ELSE TokenLoop(ctx, base_idx, char_idx, k + 1, carried)

\* segment_token(base, tone_marks, start_char_idx)
segment_token(ctx, start_char_idx) == TokenHelper(ctx, 0, start_char_idx)

\* env: [tokens, hanzi_chars, allowed, valid]
TokenCtx(env, token) ==
    [base |-> parse_token(token).base, tone_marks |-> parse_token(token).tone_marks,
     hanzi_chars |-> env.hanzi_chars, allowed |-> env.allowed, valid |-> env.valid]

RECURSIVE Helper(_, _, _)
RECURSIVE HelperLoop(_, _, _, _, _)

\* _segment_pinyin_with_hanzi.helper(token_idx, char_idx)
Helper(env, token_idx, char_idx) ==
    IF token_idx = Len(env.tokens)
        THEN (IF char_idx = Len(env.hanzi_chars) THEN << <<>> >> ELSE <<>>)
    ELSE IF parse_token(env.tokens[token_idx + 1]).base = <<>> THEN <<>>
    ELSE HelperLoop(env, token_idx,
                    segment_token(TokenCtx(env, env.tokens[token_idx + 1]), char_idx), 1, <<>>)

\* "for syllables, next_char_idx in segment_token(...)", from the i-th partial on
HelperLoop(env, token_idx, partials, i, solutions) ==
    IF i > Len(partials) THEN solutions
    ELSE LET rests == Helper(env, token_idx + 1, partials[i].next)
             step == AppendEach(solutions,
                        [j \in 1..Len(rests) |-> partials[i].syllables \o rests[j]])
         IN  IF step.ret THEN step.solutions
             ELSE HelperLoop(env, token_idx, partials, i + 1, step.solutions)

Ok(syllables) == [kind |-> "ok", syllables |-> syllables]
Raise(error, detail) == [kind |-> "raise", error |-> error, detail |-> detail]

\* the whole-word filter applied when the search returned two solutions
WordFilter(solutions, word_map, word) ==
    LET candidates == MapGet(word_map, word, {})
        candidate_bases == {Bases(seq) : seq \in candidates}
    IN  IF candidates # {}
        THEN SelectSeq(solutions, LAMBDA solution : Bases(solution) \in candidate_bases)
        ELSE <<>>

\* what _segment_pinyin_with_hanzi does with the solutions of helper(0, 0)
SelectSolution(solutions, hanzi_chars, word_map) ==
    LET filtered == WordFilter(solutions, word_map, hanzi_chars)
    IN  IF solutions = <<>> THEN Raise("unable_to_align", hanzi_chars)
        ELSE IF Len(solutions) > 1
            THEN IF Len(filtered) = 1 THEN Ok(filtered[1])
                 ELSE Raise("ambiguous", IF filtered # <<>> THEN filtered ELSE solutions)
        ELSE Ok(solutions[1])

_segment_pinyin_with_hanzi(tokens, hanzi_chars, hanzi_map, word_map, valid) ==
    SelectSolution(
        Helper([tokens |-> tokens, hanzi_chars |-> hanzi_chars,
                allowed |-> [char \in SeqRange(hanzi_chars) |-> hanzi_map[char]],
                valid |-> valid], 0, 0),
        hanzi_chars, word_map)

-----------------------------------------------------------------------------
(* Numbering without Hanzi: _segment_syllables and _pinyin_numbered_basic *)

RECURSIVE SegHelper(_, _, _)
RECURSIVE SegLoop(_, _, _, _)

\* _segment_syllables.helper(idx): the first segmentation found, or "none"
SegHelper(base, valid, idx) ==
    IF idx = Len(base) THEN [found |-> TRUE, bounds |-> <<>>]
    ELSE SegLoop(base, valid, idx, 1)

SegLoop(base, valid, idx, k) ==
    IF k > Len(valid) THEN [found |-> FALSE, bounds |-> <<>>]
    ELSE LET syllable == valid[k]
             next_idx == idx + Len(syllable)
             rest == SegHelper(base, valid, next_idx)
         IN  IF StartsWith(base, syllable, idx) /\ rest.found
             THEN [found |-> TRUE,
                   bounds |-> <<[start |-> idx, end |-> next_idx, syllable |-> syllable]>>
                              \o rest.bounds]
             ELSE SegLoop(base, valid, idx, k + 1)

_segment_syllables(base, valid) ==
    IF base = <<>> THEN [found |-> TRUE, bounds |-> <<>>] ELSE SegHelper(base, valid, 0)

\* the syllables of one chunk, or the error raised for it
BasicChunk(chunk, valid) ==
    LET parsed == parse_token(chunk)
        boundaries == _segment_syllables(parsed.base, valid)
        tonesOf(b) == TonesIn(parsed.tone_marks, b.start, b.end)
        clash == \E i \in 1..Len(boundaries.bounds) : Cardinality(tonesOf(boundaries.bounds[i])) > 1
    IN  IF ~boundaries.found THEN Raise("unable_to_segment", parsed.base)
        ELSE IF clash THEN Raise("multiple_tone_marks", chunk)
        ELSE Ok([i \in 1..Len(boundaries.bounds) |->
                    LET b == boundaries.bounds[i]
                    IN  Syl(b.syllable,
                            IF tonesOf(b) = {} THEN 5 ELSE CHOOSE t \in tonesOf(b) : TRUE)])

\* the token loop of _pinyin_numbered_basic: the output is kept as the list of
\* its "/"-separated parts, each a list of numbered syllables
RECURSIVE BasicLoop(_, _, _, _)
BasicLoop(tokens, valid, i, parts) ==
    IF i > Len(tokens) THEN [kind |-> "ok", variants |-> parts]
    ELSE IF tokens[i].sep THEN BasicLoop(tokens, valid, i + 1, Append(parts, <<>>))
    ELSE LET chunk == BasicChunk(tokens[i].tok, valid)
         IN  IF chunk.kind = "raise" THEN chunk
             ELSE BasicLoop(tokens, valid, i + 1,
                    [parts EXCEPT ![Len(parts)] = @ \o chunk.syllables])

_pinyin_numbered_basic(pinyin, valid) ==
    LET tokens == _tokenize_pinyin(pinyin)
    IN  IF tokens = <<>> THEN Raise("empty_pinyin", <<>>)
        ELSE BasicLoop(tokens, valid, 1, << <<>> >>)

-----------------------------------------------------------------------------
(* pinyin_numbered *)

\* normalized_joined of one variant
NormalizedJoined(tokens) == Flatten([i \in 1..Len(tokens) |-> NormalizedPart(tokens[i])])

\* numbered_joined = "".join(syllable[:-1] for syllable in syllables)
NumberedJoined(syllables) == Flatten(Bases(syllables))

\* the round-trip check of one variant
RoundTripOk(tokens, syllables) == NormalizedJoined(tokens) = NumberedJoined(syllables)

\* the round-trip check of a variant whose alignment gave segmented
CheckedVariant(tokens, segmented) ==
    IF segmented.kind = "raise" THEN segmented
    ELSE IF ~RoundTripOk(tokens, segmented.syllables)
        THEN Raise("normalization_mismatch", segmented.syllables)
    ELSE segmented

\* the same body, from the tokens of the variant on
VariantOfTokens(tokens, hanzi_chars, hanzi_map, word_map, valid) ==
    IF tokens = <<>> THEN Raise("empty_pinyin", <<>>)
    ELSE CheckedVariant(tokens,
            _segment_pinyin_with_hanzi(tokens, hanzi_chars, hanzi_map, word_map, valid))

\* the body of "for variant in variants", for one variant
NumberVariant(variant, hanzi_chars, hanzi_map, word_map, valid) ==
    VariantOfTokens(VariantTokens(variant), hanzi_chars, hanzi_map, word_map, valid)

\* the loop "for variant in variants": result is what pinyin_numbered returns
\* or raises, outcomes what _segment_pinyin_with_hanzi and the round-trip check
\* gave for each variant the loop reached
RECURSIVE VariantLoop(_, _, _, _, _, _, _, _)
RECURSIVE VariantDone(_, _, _, _, _, _, _, _, _)
VariantLoop(variants, i, hanzi_chars, hanzi_map, word_map, valid, numbered_variants, outcomes) ==
    IF i > Len(variants)
        THEN [result |-> [kind |-> "ok", variants |-> numbered_variants], outcomes |-> outcomes]
    ELSE VariantDone(variants, i, hanzi_chars, hanzi_map, word_map, valid, numbered_variants,
                     outcomes,
                     NumberVariant(variants[i], hanzi_chars, hanzi_map, word_map, valid))

\* the rest of the loop body, one being what the variant's body returned or raised
VariantDone(variants, i, hanzi_chars, hanzi_map, word_map, valid, numbered_variants, outcomes, one) ==
    IF one.kind = "raise" THEN [result |-> one, outcomes |-> Append(outcomes, one)]
    ELSE VariantLoop(variants, i + 1, hanzi_chars, hanzi_map, word_map, valid,
                     Append(numbered_variants, one.syllables), Append(outcomes, one))

\* one run of pinyin_numbered(pinyin, word_index, word, cedict_repo); valid is
\* VALID_SYLLABLES
PinyinNumberedRun(pinyin, word, cedict_repo, valid) ==
    LET hanzi_chars == _extract_hanzi_chars(word)
        hanzi_map == cedict_repo.hanzi_syllable_map
        missing == {char \in SeqRange(hanzi_chars) : ~InMap(hanzi_map, char)}
    IN  IF hanzi_chars = <<>>
            THEN [result |-> _pinyin_numbered_basic(pinyin, valid), outcomes |-> <<>>]
        ELSE IF ~FileExists(cedict_repo)
            THEN [result |-> Raise("FileNotFoundError", "hanzi_syllable_map"), outcomes |-> <<>>]
        ELSE IF missing # {}
            THEN [result |-> Raise("missing_mapping", missing), outcomes |-> <<>>]
        ELSE VariantLoop(Variants(pinyin), 1, hanzi_chars, hanzi_map,
                         cedict_repo.word_syllable_map, valid, <<>>, <<>>)

\* what the call returns: [kind |-> "ok", variants |-> <the "/"-joined variants>],
\* or the error it raises
pinyin_numbered(pinyin, word, cedict_repo, valid) ==
    PinyinNumberedRun(pinyin, word, cedict_repo, valid).result

-----------------------------------------------------------------------------
(* Numbered pinyin as text, and the matching helpers of cedict/matcher.py *)

\* the decimal digits as characters
DecimalDigit == [n \in 0..9 |-> <<"0", "1", "2", "3", "4", "5", "6", "7", "8", "9">>[n + 1]]

\* int(text) of a string of decimal digits
RECURSIVE IntOf(_)
IntOf(digits) ==
    IF Len(digits) = 1 THEN CHOOSE n \in 0..9 : DecimalDigit[n] = digits[1]
    ELSE 10 * IntOf(SubSeq(digits, 1, Len(digits) - 1)) + IntOf(<<Last(digits)>>)
ToneDigit == <<"1", "2", "3", "4", "5">>
IsDigit(ch) == ch \in {"0", "1", "2", "3", "4", "5", "6", "7", "8", "9"}

\* f"{base}{tone}": the text of a numbered syllable, and of each of a tuple
TokenText(syllable) == Append(syllable.base, ToneDigit[syllable.tone])
TokensText(tokens) == [i \in 1..Len(tokens) |-> TokenText(tokens[i])]

\* sep.join(parts)
RECURSIVE Join(_, _)
Join(sep, parts) ==
    IF parts = <<>> THEN <<>>
    ELSE IF Len(parts) = 1 THEN parts[1]
    ELSE parts[1] \o sep \o Join(sep, Tail(parts))

\* the pinyin_numbered property of CandidateGroup and CedictEntry
JoinedPinyin(pinyin_tokens) == Join(<<" ">>, TokensText(pinyin_tokens))

\* the string pinyin_numbered returns: "/".join(numbered_variants).strip(),
\* each variant " ".join(syllables)
NumberedText(variants) ==
    Strip(Join(<<"/">>, [i \in 1..Len(variants) |-> JoinedPinyin(variants[i])]))

\* str.split(): the pieces between runs of whitespace
RECURSIVE SplitSpaces(_, _, _)
SplitSpaces(s, i, cur) ==
    LET flushed == IF cur # <<>> THEN <<cur>> ELSE <<>>
    IN  IF i > Len(s) THEN flushed
        ELSE IF IsSpace(s[i]) THEN flushed \o SplitSpaces(s, i + 1, <<>>)
        ELSE SplitSpaces(s, i + 1, Append(cur, s[i]))

\* matcher.split_numbered_variants
split_numbered_variants(numbered) ==
    LET parts == SplitSlash(numbered, 1, <<>>)
    IN  SelectNonEmpty([i \in 1..Len(parts) |-> SplitSpaces(Strip(parts[i]), 1, <<>>)])

\* matcher.tone_insensitive_tokens
tone_insensitive_tokens(tokens) ==
    [i \in 1..Len(tokens) |->
        IF tokens[i] # <<>> /\ IsDigit(Last(tokens[i]))
        THEN SubSeq(tokens[i], 1, Len(tokens[i]) - 1)
        ELSE tokens[i]]

\* the order of Python strings over the characters of the model (code points)
CharOrder == <<" ", ",", "/", "1", "2", "3", "4", "5", "a", "g", "h", "m", "n", "r", "|">>
CharRank(ch) == CHOOSE k \in 1..Len(CharOrder) : CharOrder[k] = ch

RECURSIVE TextLess(_, _)
TextLess(s, t) ==
    IF t = <<>> THEN FALSE
    ELSE IF s = <<>> THEN TRUE
    ELSE IF Head(s) = Head(t) THEN TextLess(Tail(s), Tail(t))
    ELSE CharRank(Head(s)) < CharRank(Head(t))

\* the order of Python tuples of strings
RECURSIVE TupleLess(_, _)
TupleLess(a, b) ==
    IF b = <<>> THEN FALSE
    ELSE IF a = <<>> THEN TRUE
    ELSE IF Head(a) = Head(b) THEN TupleLess(Tail(a), Tail(b))
    ELSE TextLess(Head(a), Head(b))

\* sorted(...) of a set of strings
RECURSIVE SortTexts(_)
SortTexts(S) ==
    IF S = {} THEN <<>>
    ELSE LET first == CHOOSE s \in S : \A t \in S \ {s} : TextLess(s, t)
         IN  <<first>> \o SortTexts(S \ {first})

\* matcher.CandidateGroup: its two fields
CandidateGroup(pinyin_tokens, definition) ==
    [pinyin_tokens |-> pinyin_tokens, definition |-> definition]

\* groups.sort(key=lambda item: (item.pinyin_tokens, item.definition)); the
\* token tuples of the groups are distinct, so the second key never decides
RECURSIVE SortGroups(_)
SortGroups(G) ==
    IF G = {} THEN <<>>
    ELSE LET first == CHOOSE g \in G : \A h \in G \ {g} :
                          TupleLess(TokensText(g.pinyin_tokens), TokensText(h.pinyin_tokens))
         IN  <<first>> \o SortGroups(G \ {first})

\* matcher.group_candidates
group_candidates(entries) ==
    LET keys == {entries[i].pinyin_tokens : i \in 1..Len(entries)}
        defs(k) == {entries[i].definition :
                       i \in {j \in 1..Len(entries) : entries[j].pinyin_tokens = k}}
        group(k) == CandidateGroup(k, Join(<<" ", "|", " ">>,
                                           SortTexts({d \in defs(k) : d # <<>>})))
    IN  SortGroups({group(k) : k \in keys})

\* Python's None
None == [kind |-> "none"]

\* an exact match that looks at the first source variant only
ExactMatchFirstVariant(groups, source_variants) ==
    IF source_variants = <<>> THEN None
    ELSE LET hits == SelectSeq(groups,
                        LAMBDA g : TokensText(g.pinyin_tokens) = Head(source_variants))
         IN  IF hits # <<>> THEN Last(hits) ELSE None

\* matcher.exact_match: the group of the first variant that is a key of by_tokens
RECURSIVE exact_match(_, _)
exact_match(groups, source_variants) ==
    IF source_variants = <<>> THEN None
    ELSE LET hits == SelectSeq(groups,
                        LAMBDA g : TokensText(g.pinyin_tokens) = Head(source_variants))
         IN  IF hits # <<>> THEN Last(hits)
             ELSE exact_match(groups, Tail(source_variants))

\* matcher.tone_insensitive_matches
tone_insensitive_matches(groups, source_variants) ==
    LET source_bases == {tone_insensitive_tokens(source_variants[i]) :
                            i \in 1..Len(source_variants)}
    IN  SelectSeq(groups,
            LAMBDA g : tone_insensitive_tokens(TokensText(g.pinyin_tokens)) \in source_bases)

-----------------------------------------------------------------------------
(* Stage 3: stages/stage3_enrich.py *)

\* _lookup_word: the Hanzi of the word, or the word itself when it has none
_lookup_word(word) ==
    LET hanzi_only == SelectSeq(word, IsCJK)
    IN  IF hanzi_only # <<>> THEN hanzi_only ELSE word

\* _Resolution
Resolution(candidate, branch) == [candidate |-> candidate, branch |-> branch]

\* an unresolved note: its fixed part, the text after the colon, and whether
\* the "patch_" prefix was put before it
Note(tag, text) == [tag |-> tag, text |-> text, patch |-> FALSE]

\* a key made of the lookup word instead of the row's word
OverrideKeyLookupWord(row) == <<_lookup_word(row.word), row.pinyin_numbered>>

\* the key of disambiguation_map.get((row.word, row.pinyin_numbered))
OverrideKey(row) == <<row.word, row.pinyin_numbered>>

\* what _resolve_from_repo returns: (resolution, unresolved_note,
\* tone_candidates); consulted records whether the override table was read
ResolveResult(resolution, note, tone_candidates, consulted) ==
    [resolution |-> resolution, note |-> note, tone_candidates |-> tone_candidates,
     consulted |-> consulted]

\* the branch "if len(tone_candidates) > 1", selected being what the table gave
\* (empty when it has no entry for the key)
ResolveMulti(tone_candidates, selected) ==
    LET chosen == SelectSeq(tone_candidates,
                            LAMBDA c : JoinedPinyin(c.pinyin_tokens) = selected)
        candidate_list ==
            Join(<<",", " ">>, [i \in 1..Len(tone_candidates) |->
                                   JoinedPinyin(tone_candidates[i].pinyin_tokens)])
    IN  IF selected # <<>>
        THEN IF chosen # <<>>
             THEN ResolveResult(Resolution(chosen[1], "tone_insensitive_multi"), None,
                                tone_candidates, TRUE)
             ELSE ResolveResult(None,
                                Note("disambiguation_selected_not_in_candidates", selected),
                                tone_candidates, TRUE)
        ELSE ResolveResult(None, Note("tone_insensitive_multiple_candidates", candidate_list),
                           tone_candidates, TRUE)

\* _resolve_from_repo from the tone-insensitive matching on
ResolveTone(row, disambiguation_map, tone_candidates) ==
    IF Len(tone_candidates) = 1
        THEN ResolveResult(Resolution(tone_candidates[1], "tone_insensitive_unique"), None,
                           tone_candidates, FALSE)
    ELSE IF Len(tone_candidates) > 1
        THEN ResolveMulti(tone_candidates, MapGet(disambiguation_map, OverrideKey(row), <<>>))
    ELSE ResolveResult(None, Note("no_pinyin_match", <<>>), <<>>, FALSE)

\* _resolve_from_repo from the exact matching on
ResolveExact(row, disambiguation_map, source_variants, groups, exact) ==
    IF exact # None THEN ResolveResult(Resolution(exact, "exact"), None, <<>>, FALSE)
    ELSE ResolveTone(row, disambiguation_map,
                     tone_insensitive_matches(groups, source_variants))

\* _resolve_from_repo once the source variants and the groups are known
ResolveGroups(row, disambiguation_map, source_variants, groups) ==
    IF source_variants = <<>>
        THEN ResolveResult(None, Note("empty_source_pinyin_numbered", <<>>), <<>>, FALSE)
    ELSE IF groups = <<>>
        THEN ResolveResult(None, Note("no_word_entry", <<>>), <<>>, FALSE)
    ELSE ResolveExact(row, disambiguation_map, source_variants, groups,
                      exact_match(groups, source_variants))

\* repo.entries_for_word(...) of a repository without its file
FileNotFound == Raise("FileNotFoundError", "entries")
IsRaise(result) == "kind" \in DOMAIN result /\ result.kind = "raise"

\* a pass that reads a repository without its file as one without entries
ResolveFromRepoMissingAsEmpty(row, repo, disambiguation_map) ==
    ResolveGroups(row, disambiguation_map,
                  split_numbered_variants(row.pinyin_numbered),
                  IF FileExists(repo)
                  THEN group_candidates(entries_for_word(repo.entries, _lookup_word(row.word)))
                  ELSE <<>>)

\* the dictionary is first read after the check of the source variants
_resolve_from_repo(row, repo, disambiguation_map) ==
    IF split_numbered_variants(row.pinyin_numbered) # <<>> /\ ~FileExists(repo)
        THEN FileNotFound
    ELSE ResolveGroups(row, disambiguation_map,
                       split_numbered_variants(row.pinyin_numbered),
                       IF FileExists(repo)
                       THEN group_candidates(entries_for_word(repo.entries, _lookup_word(row.word)))
                       ELSE <<>>)

\* note in {"no_word_entry", "no_pinyin_match"}
IsMissNote(note) ==
    /\ note # None
    /\ ~note.patch
    /\ note.tag \in {"no_word_entry", "no_pinyin_match"}

\* a fallback taken for every unresolved row
PatchWantedWhenUnresolved(resolution, note) == resolution = None

\* "if resolution is None and note in {...}": whether the patch pass runs
PatchWanted(resolution, note) == resolution = None /\ IsMissNote(note)

\* the patch pass was not run
NotRun == [kind |-> "not_run"]

PatchedMatch(row, selected_cedict_pinyin) ==
    [word_index |-> row.word_index, word |-> row.word,
     source_pinyin_numbered |-> row.pinyin_numbered,
     selected_cedict_pinyin |-> selected_cedict_pinyin]

\* what the fallback block leaves: the two passes, and resolution, note,
\* tone_candidates and the PatchedMatch appended
RowResult(primary, patch, resolution, note, tone_candidates, patched_items) ==
    [primary |-> primary, patch |-> patch, resolution |-> resolution, note |-> note,
     tone_candidates |-> tone_candidates, patched |-> patched_items]

\* the fallback block once the patch pass returned fallback
AfterPatch(row, primary, fallback) ==
    IF IsRaise(fallback) THEN fallback
    ELSE IF fallback.resolution # None
        THEN RowResult(primary, fallback, fallback.resolution, None, fallback.tone_candidates,
                 <<PatchedMatch(row, JoinedPinyin(fallback.resolution.candidate.pinyin_tokens))>>)
    ELSE IF ~IsMissNote(fallback.note)
        THEN RowResult(primary, fallback, None, [fallback.note EXCEPT !.patch = TRUE],
                       primary.tone_candidates, <<>>)
    ELSE RowResult(primary, fallback, None, primary.note, primary.tone_candidates, <<>>)

\* the loop body after the primary pass returned primary
AfterPrimary(row, patch_dict, disambiguation_map, primary) ==
    IF IsRaise(primary) THEN primary
    ELSE IF ~PatchWanted(primary.resolution, primary.note)
        THEN RowResult(primary, NotRun, primary.resolution, primary.note,
                       primary.tone_candidates, <<>>)
    ELSE AfterPatch(row, primary, _resolve_from_repo(row, patch_dict, disambiguation_map))

\* a resolution that takes the dictionary pinyin a row already carries for
\* its source
ResolveRowFromEnrichment(row, main_dict, patch_dict, disambiguation_map) ==
    AfterPrimary(row, patch_dict, disambiguation_map,
                 _resolve_from_repo(IF "pinyin_cc_cedict" \in DOMAIN row
                                       /\ row.pinyin_cc_cedict # <<>>
                                    THEN [row EXCEPT !.pinyin_numbered = row.pinyin_cc_cedict]
                                    ELSE row,
                                    main_dict, disambiguation_map))

\* the resolution of one row, up to the end of the fallback block
ResolveRow(row, main_dict, patch_dict, disambiguation_map) ==
    AfterPrimary(row, patch_dict, disambiguation_map,
                 _resolve_from_repo(row, main_dict, disambiguation_map))

\* the indices of a CedictRepository, each a cached property
Indices == {"entries", "entries_by_word", "word_syllable_map", "hanzi_syllable_map"}
NothingBuilt == [primary |-> [idx \in Indices |-> 0], patch |-> [idx \in Indices |-> 0]]

\* a property computed at every read
PropertyNotCached(times_built) == times_built + 1

\* functools.cached_property: the value is computed at the first read only
cached_property(times_built) == IF times_built = 0 THEN 1 ELSE times_built

\* the counts after the indices named are read; a repository without its
\* file raises from entries and nothing is kept
Read(counts, repo, indices) ==
    IF ~FileExists(repo) THEN counts
    ELSE [idx \in Indices |-> IF idx \in indices THEN cached_property(counts[idx])
                                                  ELSE counts[idx]]

\* what pinyin_numbered reads for a word: nothing without Hanzi, else
\* hanzi_syllable_map (built from entries) and, when no character lacks a
\* mapping, word_syllable_map
Stage2Reads(row_word, repo) ==
    IF _extract_hanzi_chars(row_word) = <<>> \/ ~FileExists(repo) THEN {}
    ELSE IF \E char \in SeqRange(_extract_hanzi_chars(row_word)) :
                ~InMap(repo.hanzi_syllable_map, char)
        THEN {"entries", "hanzi_syllable_map"}
    ELSE {"entries", "hanzi_syllable_map", "word_syllable_map"}

\* what a pass of _resolve_from_repo reads: entries_for_word goes through
\* entries_by_word (built from entries), after the check of the source variants
PassReads(row) ==
    IF split_numbered_variants(row.pinyin_numbered) = <<>> THEN {}
    ELSE {"entries", "entries_by_word"}

\* what the patch pass reads, when the primary pass calls for it
PatchReads(row, main_dict, disambiguation_map) ==
    IF IsRaise(_resolve_from_repo(row, main_dict, disambiguation_map)) THEN {}
    ELSE IF PatchWanted(_resolve_from_repo(row, main_dict, disambiguation_map).resolution,
                        _resolve_from_repo(row, main_dict, disambiguation_map).note)
        THEN PassReads(row)
    ELSE {}

\* a row that keeps the word as the dictionaries are asked for it
NumberedRowOfLookupWord(word_index, level, row_word, source_pinyin, part_of_speech, numbered_text) ==
    [word_index |-> word_index, level |-> level, word |-> _lookup_word(row_word),
     pinyin |-> source_pinyin, part_of_speech |-> part_of_speech,
     pinyin_numbered |-> numbered_text]

\* models.NumberedRow
NumberedRow(word_index, level, row_word, source_pinyin, part_of_speech, numbered_text) ==
    [word_index |-> word_index, level |-> level, word |-> row_word, pinyin |-> source_pinyin,
     part_of_speech |-> part_of_speech, pinyin_numbered |-> numbered_text]

\* a row that repeats the numbered source pinyin as the dictionary pinyin
EnrichedRowEchoingSource(row, pinyin_cc_cedict, traditional_cc_cedict, definition_cc_cedict) ==
    [word_index |-> row.word_index, level |-> row.level, word |-> row.word,
     pinyin |-> row.pinyin, part_of_speech |-> row.part_of_speech,
     pinyin_numbered |-> row.pinyin_numbered,
     pinyin_cc_cedict |-> row.pinyin_numbered,
     traditional_cc_cedict |-> traditional_cc_cedict,
     definition_cc_cedict |-> definition_cc_cedict]

EnrichedRow(row, pinyin_cc_cedict, traditional_cc_cedict, definition_cc_cedict) ==
    [word_index |-> row.word_index, level |-> row.level, word |-> row.word,
     pinyin |-> row.pinyin, part_of_speech |-> row.part_of_speech,
     pinyin_numbered |-> row.pinyin_numbered,
     pinyin_cc_cedict |-> pinyin_cc_cedict,
     traditional_cc_cedict |-> traditional_cc_cedict,
     definition_cc_cedict |-> definition_cc_cedict]

NoMatchItem(row, notes) ==
    [word_index |-> row.word_index, word |-> row.word, source_pinyin |-> row.pinyin,
     source_pinyin_numbered |-> row.pinyin_numbered, notes |-> notes]

ToneInsensitiveUniqueMatch(row, selected_cedict_pinyin) ==
    [word_index |-> row.word_index, word |-> row.word, source_pinyin |-> row.pinyin,
     source_pinyin_numbered |-> row.pinyin_numbered,
     selected_cedict_pinyin |-> selected_cedict_pinyin]

\* candidate_cedict_pinyin = tuple(sorted(candidate.pinyin_numbered ...))
ToneInsensitiveMultiMatch(row, tone_candidates, selected_cedict_pinyin) ==
    [word_index |-> row.word_index, word |-> row.word, source_pinyin |-> row.pinyin,
     source_pinyin_numbered |-> row.pinyin_numbered,
     candidate_cedict_pinyin |->
         SortTexts({JoinedPinyin(tone_candidates[i].pinyin_tokens) :
                       i \in 1..Len(tone_candidates)}),
     selected_cedict_pinyin |-> selected_cedict_pinyin]

ResolutionReport(tone_insensitive_unique, tone_insensitive_multi, patched, no_match) ==
    [tone_insensitive_unique |-> tone_insensitive_unique,
     tone_insensitive_multi |-> tone_insensitive_multi,
     patched |-> patched, no_match |-> no_match]

\* report.no_match[:25] of the error message
PreviewLimit == 25

\* the characters of the model's words in code point order: the digit, then
\* the Hanzi
WordCharOrder == <<"1", "A", "B", "ER", "YI", "BU">>

\* str < str on words
RECURSIVE WordLess(_, _)
WordLess(s, t) ==
    IF t = <<>> THEN FALSE
    ELSE IF s = <<>> THEN TRUE
    ELSE IF Head(s) = Head(t) THEN WordLess(Tail(s), Tail(t))
    ELSE (CHOOSE k \in 1..Len(WordCharOrder) : WordCharOrder[k] = Head(s))
            < (CHOOSE k \in 1..Len(WordCharOrder) : WordCharOrder[k] = Head(t))

\* str < str on strings of digits
RECURSIVE DigitsLess(_, _)
DigitsLess(s, t) ==
    IF t = <<>> THEN FALSE
    ELSE IF s = <<>> THEN TRUE
    ELSE IF Head(s) = Head(t) THEN DigitsLess(Tail(s), Tail(t))
    ELSE IntOf(<<Head(s)>>) < IntOf(<<Head(t)>>)

\* a sort key that compares the index as text
ReportKeyLessAsText(a, b) ==
    \/ DigitsLess(a.word_index, b.word_index)
    \/ /\ a.word_index = b.word_index
       /\ \/ WordLess(a.word, b.word)
          \/ a.word = b.word /\ TextLess(a.source_pinyin_numbered, b.source_pinyin_numbered)

\* key=lambda item: (int(item.word_index), item.word, item.source_pinyin_numbered)
ReportKeyLess(a, b) ==
    \/ IntOf(a.word_index) < IntOf(b.word_index)
    \/ /\ IntOf(a.word_index) = IntOf(b.word_index)
       /\ \/ WordLess(a.word, b.word)
          \/ a.word = b.word /\ TextLess(a.source_pinyin_numbered, b.source_pinyin_numbered)

\* sorted(items, key=...): stable, an item goes behind those it is not less than
RECURSIVE InsertByKey(_, _)
InsertByKey(sorted, item) ==
    IF sorted = <<>> THEN <<item>>
    ELSE IF ReportKeyLess(item, Head(sorted)) THEN <<item>> \o sorted
    ELSE <<Head(sorted)>> \o InsertByKey(Tail(sorted), item)

RECURSIVE SortedByKey(_)
SortedByKey(items) ==
    IF items = <<>> THEN <<>>
    ELSE InsertByKey(SortedByKey(SubSeq(items, 1, Len(items) - 1)), Last(items))

\* collect_level_counts and the level table: one line per level, by level
RECURSIVE LevelRows(_, _)
LevelRows(shown_rows, levels) ==
    IF levels = {} THEN <<>>
    ELSE LET level == CHOOSE l \in levels : \A m \in levels : l <= m
         IN  << <<level, Cardinality({i \in 1..Len(shown_rows) : shown_rows[i].level = level})>> >>
                \o LevelRows(shown_rows, levels \ {level})

\* collect_pos_counts and its table, the rows of the model having one
\* part-of-speech token each
PosRows(shown_rows) ==
    IF shown_rows = <<>> THEN <<>>
    ELSE << <<shown_rows[1].part_of_speech, Len(shown_rows)>> >>

\* the tables of build_report_md(rows, report)
ReportTables(shown_rows, report) ==
    [level_rows |-> LevelRows(shown_rows, {shown_rows[i].level : i \in 1..Len(shown_rows)}),
     pos_rows |-> PosRows(shown_rows),
     tone_unique_rows |-> SortedByKey(report.tone_insensitive_unique),
     tone_multi_rows |-> SortedByKey(report.tone_insensitive_multi),
     patched_rows |-> SortedByKey(report.patched),
     no_match_rows |-> SortedByKey(report.no_match)]

-----------------------------------------------------------------------------
(* Inputs of the stage-2 model *)

\* dictionary snapshots (repository entries, in file order)
DictPlain ==
    << Entry(<<"A">>, <<Syl(sNA, 4)>>, "g1"),
       Entry(<<"B">>, <<Syl(sA, 5)>>, "g2"),
       Entry(<<"ER">>, <<R5>>, "g3"),
       Entry(<<"A", "B">>, <<Syl(sNA, 4), Syl(sA, 5)>>, "g4") >>

DictAmbiguous ==
    << Entry(<<"A">>, <<Syl(sNA, 4)>>, "g1"),
       Entry(<<"A">>, <<Syl(sNAN, 2)>>, "g5"),
       Entry(<<"B">>, <<Syl(sA, 5)>>, "g2"),
       Entry(<<"B">>, <<Syl(sNA, 5)>>, "g6"),
       Entry(<<"ER">>, <<R5>>, "g3"),
       Entry(<<"A", "B">>, <<Syl(sNAN, 2), Syl(sA, 5)>>, "g4") >>

DictThree ==
    << Entry(<<"B">>, <<Syl(sAN, 1)>>, "g2"),
       Entry(<<"A", "B", "A">>, <<Syl(sNA, 5), Syl(sN, 5), Syl(sA, 5)>>, "g7"),
       Entry(<<"A", "B", "A">>, <<Syl(sN, 5), Syl(sA, 5), Syl(sNA, 5)>>, "g8") >>

\* a character with a candidate that ends in r beside its stem, and a word
\* listed with the r kept on its first syllable
DictErhua ==
    << Entry(<<"A">>, <<Syl(sA, 5)>>, "g1"),
       Entry(<<"A">>, <<Syl(sAR, 5)>>, "g5"),
       Entry(<<"ER">>, <<R5>>, "g3"),
       Entry(<<"B">>, <<Syl(sA, 5)>>, "g2"),
       Entry(<<"B">>, <<Syl(sNA, 5)>>, "g6"),
       Entry(<<"A", "ER", "B">>, <<Syl(sAR, 5), Syl(sN, 5), Syl(sA, 5)>>, "g4") >>

\* the (word, dictionary) pairs of the rows given to stage 2: a single
\* character, two and three characters, the diminutive suffix with and without
\* dictionary coverage and after a character that has an r-final candidate,
\* and a word without Hanzi
WordCases ==
    { [word |-> <<"A">>, entries |-> DictPlain],
      [word |-> <<"A", "B">>, entries |-> DictAmbiguous],
      [word |-> <<"A", "ER">>, entries |-> DictAmbiguous],
      [word |-> <<"A", "ER">>, entries |-> DictThree],
      [word |-> <<"A", "ER", "B">>, entries |-> DictErhua],
      [word |-> <<"A", "B", "A">>, entries |-> DictThree],
      [word |-> <<"1">>, entries |-> DictPlain] }

\* the rows' words, each with its repository as built at start-up
Stage2Cases ==
    {[word |-> case.word, repo |-> CedictRepository(case.entries)] : case \in WordCases}

RawPinyins == SeqsUpTo(Glyphs, MaxLen)
RawPinyinsOrder == SeqsUpTo(Glyphs, MaxLenOrder)

\* the inventory of the run that Spec follows
ImportedInventory == _collect_valid_syllables("fwd")

-----------------------------------------------------------------------------
(* Inputs of the stage-3 model *)

\* most rows of one call of enrich_with_cedict
MaxRows == 2
MaxLines == 2

\* glosses, as text
gloss(n) == <<"g", ToneDigit[n]>>

\* the main dictionary: a word with two tones of one syllable, a word whose
\* two entries share their pinyin, and a two-character word
MainDict ==
    << Entry(<<"A">>, <<Syl(sNA, 4)>>, gloss(1)),
       Entry(<<"A">>, <<Syl(sNA, 2)>>, gloss(2)),
       Entry(<<"B">>, <<Syl(sA, 5)>>, gloss(4)),
       Entry(<<"B">>, <<Syl(sA, 5)>>, gloss(3)),
       Entry(<<"A", "B">>, <<Syl(sNA, 4), Syl(sA, 5)>>, gloss(5)) >>

\* the patch dictionary: a word the main dictionary lacks (with two tones),
\* and further pronunciations of words it has
PatchDict ==
    << Entry(<<"ER">>, <<Syl(sR, 5)>>, gloss(1)),
       Entry(<<"ER">>, <<Syl(sR, 2)>>, gloss(2)),
       Entry(<<"A">>, <<Syl(sNA, 1)>>, gloss(3)),
       Entry(<<"B">>, <<Syl(sAN, 1)>>, gloss(4)) >>

MainRepo == CedictRepository(MainDict)
PatchRepos == {CedictRepository(<<>>), CedictRepository(PatchDict)}

\* stage-2 rows: word, source pinyin, numbered variants
RowPool ==
    { [word |-> <<"A">>,      pinyin |-> <<"n", "a4">>, variants |-> << <<Syl(sNA, 4)>> >>],
      [word |-> <<"A">>,      pinyin |-> <<"n", "a">>,  variants |-> << <<Syl(sNA, 1)>> >>],
      [word |-> <<"A">>,      pinyin |-> <<"n", "a", "/", "n", "a4">>,
                              variants |-> << <<Syl(sNA, 1)>>, <<Syl(sNA, 4)>> >>],
      [word |-> <<"A", "1">>, pinyin |-> <<"n", "a4">>, variants |-> << <<Syl(sNA, 4)>> >>],
      [word |-> <<"A", "1">>, pinyin |-> <<"n", "a">>,  variants |-> << <<Syl(sNA, 1)>> >>],
      [word |-> <<"B">>,      pinyin |-> <<"a", "n">>,  variants |-> << <<Syl(sAN, 1)>> >>],
      [word |-> <<"B">>,      pinyin |-> <<"a">>,       variants |-> << <<Syl(sA, 1)>> >>],
      [word |-> <<"ER">>,     pinyin |-> <<"r">>,       variants |-> << <<Syl(sR, 5)>> >>],
      [word |-> <<"ER">>,     pinyin |-> <<"r">>,       variants |-> << <<Syl(sR, 1)>> >>],
      [word |-> <<"A">>,      pinyin |-> <<>>,          variants |-> <<>>],
      [word |-> <<"YI">>,     pinyin |-> <<"a">>,       variants |-> << <<Syl(sA, 1)>> >>] }

\* word_index is a decimal string: the text of a number below 100
Digits(n) ==
    IF n < 10 THEN <<DecimalDigit[n]>> ELSE <<DecimalDigit[n \div 10], DecimalDigit[n % 10]>>

\* the indices of a batch: its rows numbered upwards from 1, downwards from
\* 10, or all 7 (the source document lists them upwards; no stage checks
\* their order or that they differ)
IndexOrders == {"asc", "desc", "same"}
WordIndex(order, i) ==
    Digits(IF order = "asc" THEN i ELSE IF order = "desc" THEN 11 - i ELSE 7)

\* the row lists given to enrich_with_cedict
RowLists ==
    { [i \in 1..Len(s) |->
          NumberedRow(WordIndex(order, i), 1, s[i].word, s[i].pinyin, "pos",
                      NumberedText(s[i].variants))] :
      s \in SeqsUpTo(RowPool, MaxRows), order \in IndexOrders }

\* what DisambiguationRepository.load returns: (word, source) -> selected
text(syllable) == TokenText(syllable)
OverrideMaps ==
    { <<>>,
      (<< <<"A">>, text(Syl(sNA, 1)) >> :> text(Syl(sNA, 2)))
         @@ (<< <<"A">>, NumberedText(<< <<Syl(sNA, 1)>>, <<Syl(sNA, 4)>> >>) >>
                :> text(Syl(sNA, 2))),
      (<< <<"A">>, text(Syl(sNA, 1)) >> :> text(Syl(sNA, 1))),
      (<< <<"A", "1">>, text(Syl(sNA, 1)) >> :> text(Syl(sNA, 4)))
         @@ (<< <<"ER">>, text(Syl(sR, 1)) >> :> text(Syl(sR, 2))) }

\* models.RawRow
RawRow(word_index, level, row_word, source_pinyin, part_of_speech) ==
    [word_index |-> word_index, level |-> level, word |-> row_word, pinyin |-> source_pinyin,
     part_of_speech |-> part_of_speech]

\* Stage 1 rows over the main dictionary: words it resolves, leaves ambiguous
\* or lacks, one with the digit, one with no mapping for its character, one
\* without Hanzi
RawRowPool ==
    { [word |-> <<"A">>,      pinyin |-> <<"n", "a4">>],
      [word |-> <<"A">>,      pinyin |-> <<"n", "a">>],
      [word |-> <<"A", "1">>, pinyin |-> <<"n", "a">>],
      [word |-> <<"B">>,      pinyin |-> <<"a", "n">>],
      [word |-> <<"YI">>,     pinyin |-> <<"a">>],
      [word |-> <<"ER">>,     pinyin |-> <<"r">>],
      [word |-> <<"1">>,      pinyin |-> <<"a", "/", "n", "a4">>] }

RawRowLists ==
    { [i \in 1..Len(s) |-> RawRow(WordIndex(order, i), 1, s[i].word, s[i].pinyin, "pos")] :
      s \in SeqsUpTo(RawRowPool, MaxRows), order \in IndexOrders }

\* override tables for the batches: none, and one for the unmarked reading
StageOverrideMaps ==
    { <<>>, (<< <<"A">>, text(Syl(sNA, 5)) >> :> text(Syl(sNA, 4))) }

-----------------------------------------------------------------------------
(* Dictionary text: cedict/parser.py *)

\* A line of a dictionary file is modelled by what CEDICT_ENTRY_RE and the
\* splits make of it.  An entry line has its two written forms, the tokens of
\* its bracket (payload.split()) and the segments of its gloss payload
\* (definition_payload.split("/")), each segment with its text and the
\* brackets CEDICT_ALSO_PR_RE finds in it; the other lines are a comment, an
\* empty line, and a line the pattern does not match.  A raw token is
\* [base, tone], tone 0 standing for a token that does not end in a digit
\* from 1 to 5.
CedictLine(trad, simp, pinyin_field, definition_payload) ==
    [kind |-> "entry", trad |-> trad, simp |-> simp, pinyin_field |-> pinyin_field,
     definition_payload |-> definition_payload]
CommentLine == [kind |-> "comment"]
EmptyLine == [kind |-> "empty"]
UnmatchedLine == [kind |-> "unmatched"]
Segment(segment_text, also_pr) == [text |-> segment_text, also_pr |-> also_pr]

\* normalize_cedict_syllable: the numbered syllable, or None
normalize_cedict_syllable(token) ==
    IF token.base # <<>> /\ token.tone \in 1..5 THEN Syl(token.base, token.tone) ELSE None

\* _parse_pinyin_tokens: the tuple of syllables, or None if a token fails or
\* there is none
_parse_pinyin_tokens(payload) ==
    IF payload = <<>> \/ \E i \in 1..Len(payload) : normalize_cedict_syllable(payload[i]) = None
    THEN None
    ELSE [kind |-> "tokens",
          tokens |-> [i \in 1..Len(payload) |-> normalize_cedict_syllable(payload[i])]]

\* extract_additional_pinyin: the brackets after "also pr." that parse
RECURSIVE ParsedAlternates(_)
ParsedAlternates(brackets) ==
    IF brackets = <<>> THEN <<>>
    ELSE (IF _parse_pinyin_tokens(Head(brackets)) # None
          THEN <<_parse_pinyin_tokens(Head(brackets)).tokens>> ELSE <<>>)
            \o ParsedAlternates(Tail(brackets))

extract_additional_pinyin(definition_payload) ==
    ParsedAlternates(Flatten([i \in 1..Len(definition_payload) |-> definition_payload[i].also_pr]))

\* glosses = [part for part in definition_payload.split("/") if part];
\* definition = "; ".join(glosses).strip()
RECURSIVE Glosses(_)
Glosses(definition_payload) ==
    IF definition_payload = <<>> THEN <<>>
    ELSE (IF Head(definition_payload).text # <<>> THEN <<Head(definition_payload).text>> ELSE <<>>)
            \o Glosses(Tail(definition_payload))

LineDefinition(definition_payload) == Strip(Join(<<";", " ">>, Glosses(definition_payload)))

\* a line read for its simplified form only
SimplifiedFormOnly(line, trad_first) == <<line.simp>>

\* words = {trad, simp}, in the order the set is iterated (either)
WordForms(line, trad_first) ==
    IF line.trad = line.simp THEN <<line.trad>>
    ELSE IF trad_first THEN <<line.trad, line.simp>>
    ELSE <<line.simp, line.trad>>

\* the inner loops: an entry per word and token set of the word's length
RECURSIVE EntriesOfWord(_, _, _)
EntriesOfWord(form, token_sets, definition) ==
    IF token_sets = <<>> THEN <<>>
    ELSE (IF Len(Head(token_sets)) # Len(form) THEN <<>>
          ELSE <<Entry(form, Head(token_sets), definition)>>)
            \o EntriesOfWord(form, Tail(token_sets), definition)

EntriesOfWords(forms, token_sets, definition) ==
    Flatten([w \in 1..Len(forms) |-> EntriesOfWord(forms[w], token_sets, definition)])

\* one turn of "for line in lines" of parse_cedict_lines: what it appends
LineEntries(line, trad_first) ==
    IF line.kind # "entry" THEN <<>>
    ELSE IF _parse_pinyin_tokens(line.pinyin_field) = None THEN <<>>
    ELSE EntriesOfWords(WordForms(line, trad_first),
                        <<_parse_pinyin_tokens(line.pinyin_field).tokens>>
                            \o extract_additional_pinyin(line.definition_payload),
                        LineDefinition(line.definition_payload))

\* CedictRepository.entries: deduped[key] = entry, an entry staying where its
\* key was first put
RECURSIVE Deduped(_)
Deduped(entries) ==
    IF entries = <<>> THEN <<>>
    ELSE LET front == Deduped(SubSeq(entries, 1, Len(entries) - 1))
         IN  IF Last(entries) \in SeqRange(front) THEN front ELSE Append(front, Last(entries))

\* lines: one written form, two written forms with an alternate in a second
\* segment, a two-character word with a one-syllable alternate, written forms
\* of different lengths with alternates of both lengths, a bracket with a
\* token that fails, an alternate that fails beside an empty segment, and
\* the three kinds of line that are passed over
LinePool ==
    { CedictLine(<<"A">>, <<"A">>, <<Syl(sNA, 4)>>, <<Segment(gloss(1), <<>>)>>),
      CedictLine(<<"B">>, <<"A">>, <<Syl(sA, 5)>>,
                 <<Segment(gloss(2), <<>>), Segment(gloss(3), << <<Syl(sNA, 4)>> >>)>>),
      CedictLine(<<"A", "B">>, <<"A", "B">>, <<Syl(sNA, 4), Syl(sA, 5)>>,
                 <<Segment(gloss(5), << <<Syl(sNA, 2)>> >>)>>),
      CedictLine(<<"A", "B">>, <<"A">>, <<Syl(sNA, 4)>>,
                 <<Segment(gloss(4), << <<Syl(sNA, 2), Syl(sA, 5)>>, <<Syl(sNA, 4)>> >>)>>),
      CedictLine(<<"A">>, <<"B">>, <<Syl(sNA, 0)>>, <<Segment(gloss(1), <<>>)>>),
      CedictLine(<<"B">>, <<"B">>, <<Syl(sA, 5)>>,
                 <<Segment(<<>>, <<>>), Segment(gloss(2), << <<Syl(sAN, 0)>> >>)>>),
      CommentLine, EmptyLine, UnmatchedLine }

LineLists == SeqsUpTo(LinePool, MaxLines)

-----------------------------------------------------------------------------
(* State *)

VARIABLES
    pc,               \* "start", "returned" or "raised": where the call of pinyin_numbered is
    pinyin,           \* the row's tone-marked pinyin
    word,             \* the row's word
    cedict_repo,      \* the dictionary repository, its indices built
    VALID_SYLLABLES,  \* the module-level inventory, as sorted at import
    numbered,         \* what pinyin_numbered returned or raised
    aligned,          \* per variant reached, what its alignment returned or raised
    rows,             \* the stage-2 rows given to enrich_with_cedict
    patch_repo,       \* the patch dictionary repository
    disambiguation_map,  \* the override table as loaded
    allow_unresolved, \* the tolerance flag
    row_idx,          \* rows the loop of enrich_with_cedict has finished
    enriched_rows,    \* the local lists of enrich_with_cedict ...
    tone_unique,
    tone_multi,
    patched,
    no_match,
    passes,           \* per row reached, what the primary and the patch pass returned
    outcome,          \* what enrich_with_cedict returned or raised
    raw_rows,         \* the Stage 1 rows given to add_pinyin_numbered
    numbered_rows,    \* the list "out" that add_pinyin_numbered builds
    sections,         \* the tables build_report_md made of the report
    cedict_lines,     \* the lines given to parse_cedict_lines
    parsed,           \* the entries it returned
    earlier,          \* the rows of an earlier call, once they are given to a second
    built,            \* per repository and index, how often the index was built
    search,           \* the call of the segmentation search that is followed
    extract           \* parse_entries: its lines, its cursor and its locals

stage2vars == <<pinyin, word, VALID_SYLLABLES, numbered, aligned>>

stage3vars == <<rows, patch_repo, disambiguation_map, allow_unresolved, row_idx,
                enriched_rows, tone_unique, tone_multi, patched, no_match, passes, outcome>>

batchvars == <<raw_rows, numbered_rows>>

auxvars == <<sections, cedict_lines, parsed, earlier, search, extract>>

vars == <<pc, cedict_repo, stage2vars, stage3vars, batchvars, auxvars, built>>

NoResult == [kind |-> "none"]

\* no batch of add_pinyin_numbered, no report built and no dictionary text parsed
BatchIdle == raw_rows = <<>> /\ numbered_rows = <<>>
AuxIdle ==
    /\ sections = NoResult /\ cedict_lines = <<>> /\ parsed = NoResult /\ earlier = NoResult
    /\ search = NoResult /\ extract = NoResult
    /\ built = NothingBuilt

\* stage 3 at rest, while a call of pinyin_numbered is followed
EnrichIdle ==
    /\ rows = <<>>
    /\ patch_repo = CedictRepository(<<>>)
    /\ disambiguation_map = <<>>
    /\ allow_unresolved = FALSE
    /\ row_idx = 0
    /\ enriched_rows = <<>>
    /\ tone_unique = <<>>
    /\ tone_multi = <<>>
    /\ patched = <<>>
    /\ no_match = <<>>
    /\ passes = <<>>
    /\ outcome = NoResult

Init ==
    /\ pc = "start"
    /\ pinyin \in RawPinyins
    /\ \E case \in Stage2Cases :
          /\ word = case.word
          /\ cedict_repo = case.repo
    /\ VALID_SYLLABLES = ImportedInventory
    /\ numbered = NoResult
    /\ aligned = <<>>
    /\ EnrichIdle
    /\ BatchIdle
    /\ AuxIdle

\* the same call, the order of equal-length syllables of the inventory left open
\* (it is the iteration order of a Python set of strings)
InitOrder ==
    /\ pc = "start"
    /\ pinyin \in RawPinyinsOrder
    /\ \E case \in Stage2Cases :
          /\ word = case.word
          /\ cedict_repo = case.repo
    /\ VALID_SYLLABLES \in Inventories
    /\ numbered = NoResult
    /\ aligned = <<>>
    /\ EnrichIdle
    /\ BatchIdle
    /\ AuxIdle

\* one call pinyin_numbered(pinyin, word_index, word, cedict_repo)
Number ==
    /\ pc = "start"
    /\ \E run \in {PinyinNumberedRun(pinyin, word, cedict_repo, VALID_SYLLABLES)} :
          /\ numbered' = run.result
          /\ aligned' = run.outcomes
          /\ pc' = IF run.result.kind = "ok" THEN "returned" ELSE "raised"
    /\ built' = [built EXCEPT !.primary = Read(@, cedict_repo, Stage2Reads(word, cedict_repo))]
    /\ UNCHANGED <<pinyin, word, cedict_repo, VALID_SYLLABLES>>
    /\ UNCHANGED <<stage3vars, batchvars, auxvars>>

Next == Number

Spec == Init /\ [][Next]_vars

SpecOrder == InitOrder /\ [][Next]_vars

\* the state a call of enrich_with_cedict starts in
InitEnrich ==
    /\ pc = "enrich"
    /\ rows \in RowLists
    /\ cedict_repo = MainRepo
    /\ patch_repo \in PatchRepos
    /\ disambiguation_map \in OverrideMaps
    /\ allow_unresolved \in BOOLEAN
    /\ row_idx = 0
    /\ enriched_rows = <<>>
    /\ tone_unique = <<>>
    /\ tone_multi = <<>>
    /\ patched = <<>>
    /\ no_match = <<>>
    /\ passes = <<>>
    /\ outcome = NoResult
    /\ pinyin = <<>>
    /\ word = <<>>
    /\ VALID_SYLLABLES = ImportedInventory
    /\ numbered = NoResult
    /\ aligned = <<>>
    /\ BatchIdle
    /\ AuxIdle

\* an unresolved row that ends the call at once when it is not tolerated
KeepUnresolvedFailingFast(row, r) ==
    /\ no_match' = Append(no_match,
           NoMatchItem(row, IF r.note # None THEN r.note ELSE Note("unresolved", <<>>)))
    /\ enriched_rows' =
           IF allow_unresolved
           THEN Append(enriched_rows, EnrichedRow(row, <<>>, <<>>, <<>>))
           ELSE enriched_rows
    /\ row_idx' = row_idx + 1
    /\ pc' = IF allow_unresolved THEN pc ELSE "raised"
    /\ outcome' = IF allow_unresolved THEN outcome
                  ELSE Raise("ValueError", [preview |-> no_match', remaining |-> 0])
    /\ UNCHANGED <<tone_unique, tone_multi>>

\* the loop body for a row left unresolved
KeepUnresolved(row, r) ==
    /\ no_match' = Append(no_match,
           NoMatchItem(row, IF r.note # None THEN r.note ELSE Note("unresolved", <<>>)))
    /\ enriched_rows' =
           IF allow_unresolved
           THEN Append(enriched_rows, EnrichedRow(row, <<>>, <<>>, <<>>))
           ELSE enriched_rows
    /\ row_idx' = row_idx + 1
    /\ UNCHANGED <<tone_unique, tone_multi, pc, outcome>>

\* the loop body for a resolved row; building its EnrichedRow reads
\* candidate.traditional_forms, which raises AttributeError when the candidate
\* has no such attribute
EmitResolved(row, r, candidate, selected) ==
    /\ tone_unique' =
           IF r.resolution.branch = "tone_insensitive_unique"
           THEN Append(tone_unique, ToneInsensitiveUniqueMatch(row, selected))
           ELSE tone_unique
    /\ tone_multi' =
           IF r.resolution.branch = "tone_insensitive_multi"
           THEN Append(tone_multi, ToneInsensitiveMultiMatch(row, r.tone_candidates, selected))
           ELSE tone_multi
    /\ no_match' = no_match
    /\ IF "traditional_forms" \in DOMAIN candidate
       THEN /\ enriched_rows' = Append(enriched_rows,
                   EnrichedRow(row, selected, Join(<<"/">>, candidate.traditional_forms),
                               candidate.definition))
            /\ row_idx' = row_idx + 1
            /\ UNCHANGED <<pc, outcome>>
       ELSE /\ pc' = "raised"
            /\ outcome' = Raise("AttributeError", "traditional_forms")
            /\ UNCHANGED <<enriched_rows, row_idx>>

\* one turn of "for row in rows", r being what the resolution of the row gave
EnrichStep(row, r) ==
    IF IsRaise(r)
    THEN /\ pc' = "raised"
         /\ outcome' = r
         /\ UNCHANGED <<row_idx, enriched_rows, tone_unique, tone_multi, patched, no_match,
                        passes>>
    ELSE /\ passes' = Append(passes, [primary |-> r.primary, patch |-> r.patch])
         /\ patched' = patched \o r.patched
         /\ IF r.resolution = None
            THEN KeepUnresolved(row, r)
            ELSE EmitResolved(row, r, r.resolution.candidate,
                              JoinedPinyin(r.resolution.candidate.pinyin_tokens))

EnrichRow ==
    /\ pc = "enrich"
    /\ row_idx < Len(rows)
    /\ EnrichStep(rows[row_idx + 1],
                  ResolveRow(rows[row_idx + 1], cedict_repo, patch_repo, disambiguation_map))
    /\ built' = [primary |-> Read(built.primary, cedict_repo, PassReads(rows[row_idx + 1])),
                  patch |-> Read(built.patch, patch_repo,
                                 PatchReads(rows[row_idx + 1], cedict_repo, disambiguation_map))]
    /\ UNCHANGED <<rows, cedict_repo, patch_repo, disambiguation_map, allow_unresolved>>
    /\ UNCHANGED <<stage2vars, batchvars, auxvars>>

\* after the loop: the report, the tolerance check and the return
Finish ==
    /\ pc = "enrich"
    /\ row_idx = Len(rows)
    /\ LET report == ResolutionReport(tone_unique, tone_multi, patched, no_match)
           shown == IF Len(report.no_match) < PreviewLimit
                    THEN Len(report.no_match) ELSE PreviewLimit
       IN  IF report.no_match # <<>> /\ ~allow_unresolved
           THEN /\ pc' = "raised"
                /\ outcome' = Raise("ValueError",
                                    [preview |-> SubSeq(report.no_match, 1, shown),
                                     remaining |-> Len(report.no_match) - shown])
           ELSE /\ pc' = "returned"
                /\ outcome' = [kind |-> "ok", enriched_rows |-> enriched_rows,
                               report |-> report]
    /\ UNCHANGED <<rows, cedict_repo, patch_repo, disambiguation_map, allow_unresolved,
                   row_idx, enriched_rows, tone_unique, tone_multi, patched, no_match, passes>>
    /\ UNCHANGED <<stage2vars, batchvars, auxvars, built>>

\* the caller renders the report of a call that returned
BuildReport ==
    /\ pc = "returned"
    /\ sections = NoResult
    /\ "report" \in DOMAIN outcome
    /\ sections' = ReportTables(outcome.enriched_rows, outcome.report)
    /\ UNCHANGED <<pc, cedict_repo, stage2vars, stage3vars, batchvars, cedict_lines, parsed,
                   earlier, search, extract, built>>

NextEnrich == EnrichRow \/ Finish \/ BuildReport

SpecEnrich == InitEnrich /\ [][NextEnrich]_vars

-----------------------------------------------------------------------------
(* enrich_with_cedict called again on the rows it returned *)

\* the second call: same dictionaries, override table and flag, the rows
\* being the EnrichedRow list of the first
Rerun ==
    /\ pc = "returned"
    /\ earlier = NoResult
    /\ earlier' = [kind |-> "rows", rows |-> outcome.enriched_rows]
    /\ rows' = outcome.enriched_rows
    /\ pc' = "enrich"
    /\ row_idx' = 0
    /\ enriched_rows' = <<>>
    /\ tone_unique' = <<>>
    /\ tone_multi' = <<>>
    /\ patched' = <<>>
    /\ no_match' = <<>>
    /\ passes' = <<>>
    /\ outcome' = NoResult
    /\ UNCHANGED <<cedict_repo, patch_repo, disambiguation_map, allow_unresolved>>
    /\ UNCHANGED <<stage2vars, batchvars, sections, cedict_lines, parsed, search, extract, built>>

NextRerun == EnrichRow \/ Finish \/ Rerun

SpecRerun == InitEnrich /\ [][NextRerun]_vars

-----------------------------------------------------------------------------
(* Stage 2 on a batch, its output handed to stage 3 *)

\* add_pinyin_numbered starts on raw_rows; either dictionary may lack its file
InitStages ==
    /\ pc = "number"
    /\ raw_rows \in RawRowLists
    /\ numbered_rows = <<>>
    /\ cedict_repo \in {MainRepo, MissingFile}
    /\ patch_repo \in PatchRepos \cup {MissingFile}
    /\ disambiguation_map \in StageOverrideMaps
    /\ allow_unresolved \in BOOLEAN
    /\ rows = <<>>
    /\ row_idx = 0
    /\ enriched_rows = <<>>
    /\ tone_unique = <<>>
    /\ tone_multi = <<>>
    /\ patched = <<>>
    /\ no_match = <<>>
    /\ passes = <<>>
    /\ outcome = NoResult
    /\ pinyin = <<>>
    /\ word = <<>>
    /\ VALID_SYLLABLES = ImportedInventory
    /\ numbered = NoResult
    /\ aligned = <<>>
    /\ AuxIdle

\* one turn of "for row in rows" of add_pinyin_numbered, made being what
\* pinyin_numbered returned or raised for the row
NumberStep(row, made) ==
    IF made.kind = "raise"
    THEN /\ pc' = "raised"
         /\ outcome' = made
         /\ UNCHANGED numbered_rows
    ELSE /\ numbered_rows' = Append(numbered_rows,
                NumberedRow(row.word_index, row.level, row.word, row.pinyin,
                            row.part_of_speech, NumberedText(made.variants)))
         /\ UNCHANGED <<pc, outcome>>

NumberRow ==
    /\ pc = "number"
    /\ Len(numbered_rows) < Len(raw_rows)
    /\ NumberStep(raw_rows[Len(numbered_rows) + 1],
                  pinyin_numbered(raw_rows[Len(numbered_rows) + 1].pinyin,
                                  raw_rows[Len(numbered_rows) + 1].word,
                                  cedict_repo, VALID_SYLLABLES))
    /\ built' = [built EXCEPT !.primary =
                     Read(@, cedict_repo,
                          Stage2Reads(raw_rows[Len(numbered_rows) + 1].word, cedict_repo))]
    /\ UNCHANGED <<raw_rows, cedict_repo, stage2vars, auxvars>>
    /\ UNCHANGED <<rows, patch_repo, disambiguation_map, allow_unresolved, row_idx,
                   enriched_rows, tone_unique, tone_multi, patched, no_match, passes>>

\* add_pinyin_numbered returns out, which the caller gives to enrich_with_cedict
NumberReturn ==
    /\ pc = "number"
    /\ Len(numbered_rows) = Len(raw_rows)
    /\ rows' = numbered_rows
    /\ pc' = "enrich"
    /\ UNCHANGED <<raw_rows, numbered_rows, cedict_repo, stage2vars, auxvars, built>>
    /\ UNCHANGED <<patch_repo, disambiguation_map, allow_unresolved, row_idx, enriched_rows,
                   tone_unique, tone_multi, patched, no_match, passes, outcome>>

NextStages == NumberRow \/ NumberReturn \/ EnrichRow \/ Finish \/ BuildReport

SpecStages == InitStages /\ [][NextStages]_vars

-----------------------------------------------------------------------------
(* validation.py: validate_enriched_rows *)

\* the errors list after the loop: per row, in order, an item for an empty
\* pinyin_cc_cedict and one for an empty definition_cc_cedict, unless
\* unresolved rows are allowed
RECURSIVE EnrichedErrors(_, _, _)
EnrichedErrors(checked_rows, tolerant, idx) ==
    IF idx > Len(checked_rows) THEN <<>>
    ELSE (IF checked_rows[idx].pinyin_cc_cedict = <<>> /\ ~tolerant
          THEN <<[row |-> idx, empty |-> "pinyin_cc-cedict"]>> ELSE <<>>)
           \o (IF checked_rows[idx].definition_cc_cedict = <<>> /\ ~tolerant
               THEN <<[row |-> idx, empty |-> "definition_cc-cedict"]>> ELSE <<>>)
           \o EnrichedErrors(checked_rows, tolerant, idx + 1)

\* validate_enriched_rows(rows, allow_unresolved): returns, or raises
\* ValueError with the first errors and the count of the rest
ValidatedOutcome(errors) ==
    IF errors = <<>> THEN [kind |-> "ok"]
    ELSE Raise("ValueError",
               [preview |-> SubSeq(errors, 1, IF Len(errors) < PreviewLimit THEN Len(errors)
                                                                           ELSE PreviewLimit),
                remaining |-> Len(errors) - (IF Len(errors) < PreviewLimit THEN Len(errors)
                                                                           ELSE PreviewLimit)])

validate_enriched_rows(checked_rows, tolerant) ==
    ValidatedOutcome(EnrichedErrors(checked_rows, tolerant, 1))

\* rows given to the validation: each dictionary field empty or filled, the
\* written forms one form, two forms, two forms about an empty segment, and
\* a Latin letter
CheckedRowPool ==
    { EnrichedRow(NumberedRow(<<"1">>, 1, <<"A">>, <<"n", "a4">>, "pos", text(Syl(sNA, 4))),
                  p, t, d) :
        p \in {<<>>, text(Syl(sNA, 4))},
        t \in {<<>>, <<"A">>, <<"A", "/", "B">>, <<"A", "/", "/", "B">>, <<"a">>},
        d \in {<<>>, gloss(1)} }

InitValidate ==
    /\ pc = "validate"
    /\ enriched_rows \in SeqsUpTo(CheckedRowPool, MaxRows)
    /\ allow_unresolved \in BOOLEAN
    /\ rows = <<>>
    /\ cedict_repo = CedictRepository(<<>>)
    /\ patch_repo = CedictRepository(<<>>)
    /\ disambiguation_map = <<>>
    /\ row_idx = 0
    /\ tone_unique = <<>>
    /\ tone_multi = <<>>
    /\ patched = <<>>
    /\ no_match = <<>>
    /\ passes = <<>>
    /\ outcome = NoResult
    /\ pinyin = <<>>
    /\ word = <<>>
    /\ VALID_SYLLABLES = ImportedInventory
    /\ numbered = NoResult
    /\ aligned = <<>>
    /\ BatchIdle
    /\ AuxIdle

\* one call validate_enriched_rows(enriched_rows, allow_unresolved)
Validate ==
    /\ pc = "validate"
    /\ outcome' = validate_enriched_rows(enriched_rows, allow_unresolved)
    /\ pc' = IF outcome'.kind = "ok" THEN "returned" ELSE "raised"
    /\ UNCHANGED <<cedict_repo, stage2vars, batchvars, auxvars, built>>
    /\ UNCHANGED <<rows, patch_repo, disambiguation_map, allow_unresolved, row_idx,
                   enriched_rows, tone_unique, tone_multi, patched, no_match, passes>>

NextValidate == Validate

SpecValidate == InitValidate /\ [][NextValidate]_vars

-----------------------------------------------------------------------------
(* A dictionary file parsed and loaded *)

\* parse_cedict_lines starts on the lines of the file; the repository has no
\* index built yet
InitParse ==
    /\ pc = "parse"
    /\ cedict_lines \in LineLists
    /\ parsed = [kind |-> "entries", entries |-> <<>>, upto |-> 0]
    /\ cedict_repo = NoResult
    /\ pinyin = <<>>
    /\ word = <<>>
    /\ VALID_SYLLABLES = ImportedInventory
    /\ numbered = NoResult
    /\ aligned = <<>>
    /\ EnrichIdle
    /\ BatchIdle
    /\ sections = NoResult
    /\ earlier = NoResult
    /\ search = NoResult
    /\ extract = NoResult
    /\ built = NothingBuilt

\* one turn of the loop over the lines
ParseLine ==
    /\ pc = "parse"
    /\ parsed.upto < Len(cedict_lines)
    /\ \E trad_first \in BOOLEAN :
          parsed' = [parsed EXCEPT
                        !.entries = @ \o LineEntries(cedict_lines[parsed.upto + 1], trad_first),
                        !.upto = @ + 1]
    /\ UNCHANGED <<pc, cedict_repo, cedict_lines, sections, earlier, search, extract, built>>
    /\ UNCHANGED <<stage2vars, stage3vars, batchvars>>

\* parse_cedict_lines returns and CedictRepository.entries keeps the entries,
\* each once
LoadEntries ==
    /\ pc = "parse"
    /\ parsed.upto = Len(cedict_lines)
    /\ cedict_repo' = CedictRepository(Deduped(parsed.entries))
    /\ pc' = "loaded"
    /\ built' = [built EXCEPT !.primary.entries = cached_property(@)]
    /\ UNCHANGED <<parsed, cedict_lines, sections, earlier, search, extract>>
    /\ UNCHANGED <<stage2vars, stage3vars, batchvars>>

NextParse == ParseLine \/ LoadEntries

SpecParse == InitParse /\ [][NextParse]_vars

-----------------------------------------------------------------------------
(* The calls of the segmentation search, one path of them at a time *)

\* longest pinyin of the rows whose search is followed call by call
MaxLenSearch == 3

\* a call helper(token_idx, char_idx) of _segment_pinyin_with_hanzi, and a
\* call helper(base_idx, char_idx) of segment_token for the token token_idx
TokenCall(token_idx, char_idx) ==
    [level |-> "token", token_idx |-> token_idx, base_idx |-> 0, char_idx |-> char_idx]
SyllableCall(token_idx, base_idx, char_idx) ==
    [level |-> "syllable", token_idx |-> token_idx, base_idx |-> base_idx, char_idx |-> char_idx]

\* what the calls close over, for the first variant of a row: the locals
\* tokens, hanzi_chars and allowed of _segment_pinyin_with_hanzi
SearchEnvOf(row_pinyin, row_word, repo, valid) ==
    [tokens |-> IF Len(Variants(row_pinyin)) = 0 THEN <<>>
                ELSE VariantTokens(Variants(row_pinyin)[1]),
     hanzi_chars |-> _extract_hanzi_chars(row_word),
     allowed |-> [char \in SeqRange(_extract_hanzi_chars(row_word)) |->
                     repo.hanzi_syllable_map[char]],
     valid |-> valid]
SearchEnv == search.env
SearchTokens == search.env.tokens
SearchCtx(token_idx) == TokenCtx(search.env, search.env.tokens[token_idx + 1])

\* the cursor stays where it is
EndIdxStuck(base_idx, syllable) == base_idx

\* end_idx = base_idx + len(syllable)
EndIdx(base_idx, syllable) == base_idx + Len(syllable)

\* the calls helper(end_idx, ...) that the loop body of segment_token.helper
\* makes for one syllable: with two characters taken where the split is
\* possible, with one where the syllable passes the filter
Callees(ctx, call, syllable) ==
    IF \/ ~StartsWith(ctx.base, syllable, call.base_idx)
       \/ Cardinality(TonesIn(ctx.tone_marks, call.base_idx, call.base_idx + Len(syllable))) > 1
    THEN {}
    ELSE (IF /\ syllable # <<>>
             /\ Last(syllable) = "r"
             /\ call.char_idx + 1 < Len(ctx.hanzi_chars)
             /\ ctx.hanzi_chars[call.char_idx + 2] = ER
             /\ ErhuaPossible(ctx, ctx.hanzi_chars[call.char_idx + 1],
                              SubSeq(syllable, 1, Len(syllable) - 1))
          THEN {SyllableCall(call.token_idx, EndIdx(call.base_idx, syllable), call.char_idx + 2)}
          ELSE {})
         \cup
         (IF Accepted(ctx, ctx.hanzi_chars[call.char_idx + 1], syllable)
          THEN {SyllableCall(call.token_idx, EndIdx(call.base_idx, syllable), call.char_idx + 1)}
          ELSE {})

\* the rows that reach the search: a word with Hanzi, each in the map
SearchCases ==
    {c \in Stage2Cases :
        /\ _extract_hanzi_chars(c.word) # <<>>
        /\ \A char \in SeqRange(_extract_hanzi_chars(c.word)) :
              InMap(c.repo.hanzi_syllable_map, char)}

\* pinyin_numbered has come to the search of its first variant
InitSearch ==
    /\ pc = "search"
    /\ pinyin \in SeqsUpTo(Glyphs \ {"/"}, MaxLenSearch)
    /\ \E case \in SearchCases :
          /\ word = case.word
          /\ cedict_repo = case.repo
    /\ VALID_SYLLABLES = ImportedInventory
    /\ numbered = NoResult
    /\ aligned = <<>>
    /\ EnrichIdle
    /\ BatchIdle
    /\ sections = NoResult
    /\ cedict_lines = <<>>
    /\ parsed = NoResult
    /\ earlier = NoResult
    /\ extract = NoResult
    /\ built = NothingBuilt
    /\ search = [call |-> TokenCall(0, 0),
                 env |-> SearchEnvOf(pinyin, word, cedict_repo, VALID_SYLLABLES)]

\* helper(token_idx, char_idx) calls segment_token, which calls its helper(0, char_idx)
EnterToken ==
    /\ pc = "search"
    /\ search.call.level = "token"
    /\ search.call.token_idx < Len(SearchTokens)
    /\ parse_token(SearchTokens[search.call.token_idx + 1]).base # <<>>
    /\ search' = [search EXCEPT !.call = SyllableCall(@.token_idx, 0, @.char_idx)]
    /\ UNCHANGED <<pc, cedict_repo, stage2vars, stage3vars, batchvars, built>>
    /\ UNCHANGED <<sections, cedict_lines, parsed, earlier, extract>>

\* segment_token.helper calls itself for a syllable of the inventory
Descend ==
    /\ pc = "search"
    /\ search.call.level = "syllable"
    /\ search.call.base_idx # Len(SearchCtx(search.call.token_idx).base)
    /\ search.call.char_idx < Len(SearchEnv.hanzi_chars)
    /\ \E k \in 1..Len(SearchEnv.valid) :
          \E callee \in Callees(SearchCtx(search.call.token_idx), search.call, SearchEnv.valid[k]) :
              search' = [search EXCEPT !.call = callee]
    /\ UNCHANGED <<pc, cedict_repo, stage2vars, stage3vars, batchvars, built>>
    /\ UNCHANGED <<sections, cedict_lines, parsed, earlier, extract>>

\* segment_token.helper is at the end of the token and returns the partial;
\* helper(token_idx, ...) calls helper(token_idx + 1, next_char_idx) for it
NextToken ==
    /\ pc = "search"
    /\ search.call.level = "syllable"
    /\ search.call.base_idx = Len(SearchCtx(search.call.token_idx).base)
    /\ search' = [search EXCEPT !.call = TokenCall(@.token_idx + 1, @.char_idx)]
    /\ UNCHANGED <<pc, cedict_repo, stage2vars, stage3vars, batchvars, built>>
    /\ UNCHANGED <<sections, cedict_lines, parsed, earlier, extract>>

\* a call that makes no further call
LeafCall ==
    IF search.call.level = "token"
    THEN IF search.call.token_idx >= Len(SearchTokens) THEN TRUE
         ELSE parse_token(SearchTokens[search.call.token_idx + 1]).base = <<>>
    ELSE /\ search.call.base_idx # Len(SearchCtx(search.call.token_idx).base)
         /\ IF search.call.char_idx >= Len(SearchEnv.hanzi_chars) THEN TRUE
            ELSE \A k \in 1..Len(SearchEnv.valid) :
                    Callees(SearchCtx(search.call.token_idx), search.call, SearchEnv.valid[k]) = {}

\* the calls on the path return and pinyin_numbered ends
SearchReturns ==
    /\ pc = "search"
    /\ LeafCall
    /\ \E run \in {PinyinNumberedRun(pinyin, word, cedict_repo, VALID_SYLLABLES)} :
          /\ numbered' = run.result
          /\ aligned' = run.outcomes
          /\ pc' = IF run.result.kind = "ok" THEN "returned" ELSE "raised"
    /\ built' = [built EXCEPT !.primary = Read(@, cedict_repo, Stage2Reads(word, cedict_repo))]
    /\ UNCHANGED <<pinyin, word, cedict_repo, VALID_SYLLABLES>>
    /\ UNCHANGED <<stage3vars, batchvars, auxvars>>

NextSearch == EnterToken \/ Descend \/ NextToken \/ SearchReturns

\* the program runs on: a call that has a further call to make makes it
SpecSearch == InitSearch /\ [][NextSearch]_vars /\ WF_vars(EnterToken \/ Descend \/ NextToken)

-----------------------------------------------------------------------------
(* Stage 1: stage1_extract.py parse_entries *)

\* most lines given to one call of parse_entries
MaxExtractLines == 3

\* no line is a page marker
NoPageMarkers == {}

\* PAGE_MARKERS, one of the four single characters standing for them
PAGE_MARKERS == {<<"KAO">>}

\* MISSING_WORD_OVERRIDES, restricted to the indices of the model
MISSING_WORD_OVERRIDES == ("1726" :> <<"B">>)

\* A line is modelled by what the regular expressions make of it: the empty
\* line, a line that starts with the header word, a line of Hanzi only, a line
\* that ENTRY_RE matches (index, level field, and the whitespace-split rest),
\* and any other line.  A token of the rest is a pinyin token
\* (_is_pinyin_token), a token that holds a Hanzi (CJK_RE.search), or neither.
BlankLine == [kind |-> "blank"]
HeaderLine == [kind |-> "header"]
OtherLine == [kind |-> "other"]
HanziLine(hanzi) == [kind |-> "hanzi", text |-> hanzi]
Token(token_text, class) == [text |-> token_text, class |-> class]
EntryLine(word_index, levels, parts) ==
    [kind |-> "entry", word_index |-> word_index, levels |-> levels, parts |-> parts]

_is_pinyin_token(token) == token.class = "pinyin"
HasCJK(token) == token.class = "hanzi"

PendingEntry(word_index, level_field, pending_pinyin, part_of_speech) ==
    [word_index |-> word_index, level_field |-> level_field, pinyin |-> pending_pinyin,
     part_of_speech |-> part_of_speech]

\* " ".join(tokens), the texts kept apart
JoinedTokens(tokens) == [i \in 1..Len(tokens) |-> tokens[i].text]

\* "".join(tokens)
RECURSIVE ConcatTokens(_)
ConcatTokens(tokens) ==
    IF tokens = <<>> THEN <<>> ELSE Head(tokens).text \o ConcatTokens(Tail(tokens))

\* _build_raw_rows for a part-of-speech field without parenthesised groups:
\* one row per level of the level field, each with the whole field
_build_raw_rows(word_index, levels, row_word, row_pinyin, part_of_speech) ==
    [i \in 1..Len(levels) |-> RawRow(word_index, levels[i], row_word, row_pinyin, part_of_speech)]

\* the pinyin tokens at the head of the remaining tokens
RECURSIVE PinyinParts(_)
PinyinParts(remaining) ==
    IF remaining = <<>> THEN <<>>
    ELSE IF _is_pinyin_token(Head(remaining)) THEN <<Head(remaining)>> \o PinyinParts(Tail(remaining))
    ELSE <<>>

\* the locals of parse_entries, with the lines and how many of them are read
ExtractStart(lines) == [lines |-> lines, idx |-> 0, rows |-> <<>>, pending |-> None]

Skipped(st) == [st EXCEPT !.idx = @ + 1]
Emitted(st, new_rows) == [st EXCEPT !.idx = @ + 1, !.rows = @ \o new_rows]

\* the body of the loop for a line that ENTRY_RE matches, nothing pending
EntryStep(st, line) ==
    IF Len(line.parts) < 2 THEN Skipped(st)
    ELSE LET entry_word == line.parts[1]
             remaining == Tail(line.parts)
             split_idx == IF PinyinParts(remaining) = <<>> THEN 1 ELSE Len(PinyinParts(remaining))
         IN  IF _is_pinyin_token(entry_word) /\ HasCJK(remaining[1])
             THEN IF line.word_index \in DOMAIN MISSING_WORD_OVERRIDES
                  THEN Emitted(st, _build_raw_rows(line.word_index, line.levels,
                                                   MISSING_WORD_OVERRIDES[line.word_index],
                                                   entry_word.text, JoinedTokens(remaining)))
                  ELSE [st EXCEPT !.idx = @ + 1,
                                  !.pending = PendingEntry(line.word_index, line.levels,
                                                           entry_word.text,
                                                           JoinedTokens(remaining))]
             ELSE Emitted(st, _build_raw_rows(line.word_index, line.levels, entry_word.text,
                                              ConcatTokens(SubSeq(remaining, 1, split_idx)),
                                              JoinedTokens(SubSeq(remaining, split_idx + 1,
                                                                  Len(remaining)))))

\* the body of the loop while an entry is pending
PendingStep(st, line) ==
    IF line.kind = "hanzi"
    THEN IF line.text \in PAGE_MARKERS THEN Skipped(st)
         ELSE [Emitted(st, _build_raw_rows(st.pending.word_index, st.pending.level_field,
                                           line.text, st.pending.pinyin,
                                           st.pending.part_of_speech))
                  EXCEPT !.pending = None]
    ELSE Raise("ValueError", [missing_word_for |-> st.pending.word_index])

\* one turn of "for line in lines": the next locals, or the error raised
LineStep(st, line) ==
    IF line.kind \in {"blank", "header"} THEN Skipped(st)
    ELSE IF st.pending # None THEN PendingStep(st, line)
    ELSE IF line.kind # "entry" THEN Skipped(st)
    ELSE EntryStep(st, line)

\* the lines of the model: the skipped kinds, a page marker, a word on a line
\* of its own, a complete entry, an entry of two levels, entries with the
\* pinyin in the place of the word (with and without an override for the
\* index), an entry cut after its first token, and an entry whose pinyin-like
\* word is followed by more pinyin
ExtractLinePool ==
    { BlankLine, HeaderLine, OtherLine,
      HanziLine(<<"KAO">>), HanziLine(<<"A", "B">>),
      EntryLine("7", <<1>>, <<Token(<<"A">>, "hanzi"), Token(<<"a4">>, "pinyin"), Token(<<"B">>, "hanzi")>>),
      EntryLine("8", <<1, 4>>, <<Token(<<"n2">>, "pinyin"), Token(<<"B">>, "hanzi")>>),
      EntryLine("1726", <<3>>, <<Token(<<"a">>, "pinyin"), Token(<<"B">>, "hanzi")>>),
      EntryLine("9", <<2>>, <<Token(<<"n">>, "pinyin")>>),
      EntryLine("10", <<2>>, <<Token(<<"r">>, "pinyin"), Token(<<"a4">>, "pinyin"), Token(<<"B">>, "hanzi")>>) }

InitExtract ==
    /\ pc = "extract"
    /\ extract \in {ExtractStart(lines) : lines \in SeqsUpTo(ExtractLinePool, MaxExtractLines)}
    /\ cedict_repo = NoResult
    /\ pinyin = <<>>
    /\ word = <<>>
    /\ VALID_SYLLABLES = ImportedInventory
    /\ numbered = NoResult
    /\ aligned = <<>>
    /\ EnrichIdle
    /\ BatchIdle
    /\ sections = NoResult
    /\ cedict_lines = <<>>
    /\ parsed = NoResult
    /\ earlier = NoResult
    /\ search = NoResult
    /\ built = NothingBuilt

\* one turn of the loop over the lines
ReadLine ==
    /\ pc = "extract"
    /\ extract.idx < Len(extract.lines)
    /\ IF IsRaise(LineStep(extract, extract.lines[extract.idx + 1]))
       THEN /\ pc' = "raised"
            /\ extract' = [extract EXCEPT !.idx = @ + 1]
       ELSE /\ pc' = pc
            /\ extract' = LineStep(extract, extract.lines[extract.idx + 1])
    /\ UNCHANGED <<cedict_repo, stage2vars, stage3vars, batchvars, built>>
    /\ UNCHANGED <<sections, cedict_lines, parsed, earlier, search>>

\* after the loop: "if pending: raise ValueError", else "return rows"
EndOfLines ==
    /\ pc = "extract"
    /\ extract.idx = Len(extract.lines)
    /\ pc' = IF extract.pending # None THEN "raised" ELSE "returned"
    /\ UNCHANGED <<cedict_repo, stage2vars, stage3vars, batchvars, built>>
    /\ UNCHANGED <<sections, cedict_lines, parsed, earlier, search, extract>>

NextExtract == ReadLine \/ EndOfLines

SpecExtract == InitExtract /\ [][NextExtract]_vars

\* the line the next turn of the loop reads
ThisLine == extract.lines[extract.idx + 1]

\* an entry line with pinyin where the word should be, and no override word
Delayed(line) ==
    /\ line.kind = "entry"
    /\ Len(line.parts) >= 2
    /\ line.parts[1].class = "pinyin"
    /\ line.parts[2].class = "hanzi"
    /\ line.word_index \notin {"1726"}

\* what is kept of a delayed entry line
HeldOf(line) ==
    [word_index |-> line.word_index, level_field |-> line.levels, pinyin |-> line.parts[1].text,
     part_of_speech |-> [i \in 1..(Len(line.parts) - 1) |-> line.parts[i + 1].text]]

\* a blank line, a header line or a page marker
PassedOver(line) == line.kind \in {"blank", "header"} \/ line = HanziLine(<<"KAO">>)

\* the rows of a held entry whose word arrived
RowsOfHeld(held, hanzi) ==
    [i \in 1..Len(held.level_field) |->
        [word_index |-> held.word_index, level |-> held.level_field[i], word |-> hanzi,
         pinyin |-> held.pinyin, part_of_speech |-> held.part_of_speech]]

\* what one step of parse_entries does with a pending entry
PendingDiscipline ==
    IF pc # "extract" THEN TRUE
    ELSE IF extract.idx = Len(extract.lines)
    THEN extract.pending # None => pc' = "raised"
    ELSE IF extract.pending = None
    THEN Delayed(ThisLine) =>
            /\ pc' = "extract"
            /\ extract'.pending = HeldOf(ThisLine)
            /\ extract'.rows = extract.rows
    ELSE IF PassedOver(ThisLine)
    THEN /\ pc' = "extract"
         /\ extract'.pending = extract.pending
         /\ extract'.rows = extract.rows
    ELSE IF ThisLine.kind = "hanzi"
    THEN /\ pc' = "extract"
         /\ extract'.pending = None
         /\ extract'.rows = extract.rows \o RowsOfHeld(extract.pending, ThisLine.text)
    ELSE pc' = "raised"

\* the pending entry is that of one delayed line already read, and no row of
\* the rows so far has its index after that line was read
OnePending ==
    extract.pending # None =>
        \E k \in 1..extract.idx :
            /\ Delayed(extract.lines[k])
            /\ extract.pending = HeldOf(extract.lines[k])
            /\ \A j \in (k + 1)..extract.idx : PassedOver(extract.lines[j])

\* C30: in parse_entries an entry line with pinyin in the place of the word and
\* no override for its index is held pending and adds no row; while it is
\* pending, blank lines, header lines and page markers are passed over, the
\* next other Hanzi-only line becomes its word and its rows are added, any
\* other line raises ValueError, and so does the end of the lines; the pending
\* entry is always the one delayed line read last, and nothing is pending when
\* the rows are returned.
C30_PendingEntry ==
    /\ [][PendingDiscipline]_vars
    /\ [](pc \in {"extract", "returned"} => OnePending)
    /\ [](pc = "returned" => extract.pending = None)

\* a delayed entry of two levels, a page marker passed over, then its word
C30_Witness ==
    /\ pc = "returned"
    /\ extract.lines = << EntryLine("8", <<1, 4>>, <<Token(<<"n2">>, "pinyin"), Token(<<"B">>, "hanzi")>>),
                          HanziLine(<<"KAO">>), HanziLine(<<"A", "B">>) >>
    /\ extract.rows = << RawRow("8", 1, <<"A", "B">>, <<"n2">>, << <<"B">> >>),
                         RawRow("8", 4, <<"A", "B">>, <<"n2">>, << <<"B">> >>) >>

-----------------------------------------------------------------------------
(* The indices of a repository built from its entries *)

\* most entries of the dictionary whose indices are built
MaxEntries == 3

sYI == <<"y", "i">>

\* entries as parse_cedict_lines gives them, one token per character: two
\* readings of a character of its own, words that repeat a base with the same
\* and with another tone, a word in the other order, and 一 alone and in a word
EntryPool ==
    { Entry(<<"A">>, <<Syl(sNA, 4)>>, gloss(1)),
      Entry(<<"A">>, <<Syl(sAN, 1)>>, gloss(2)),
      Entry(<<"B">>, <<Syl(sA, 5)>>, gloss(3)),
      Entry(<<"A", "B">>, <<Syl(sNA, 4), Syl(sA, 5)>>, gloss(4)),
      Entry(<<"A", "B">>, <<Syl(sNA, 2), Syl(sA, 4)>>, gloss(5)),
      Entry(<<"B", "A">>, <<Syl(sA, 1), Syl(sNA, 1)>>, gloss(1)),
      Entry(<<"YI">>, <<Syl(sYI, 1)>>, gloss(2)),
      Entry(<<"A", "YI">>, <<Syl(sAN, 1), Syl(sYI, 4)>>, gloss(3)) }

\* a repository whose entries are read and whose indices are not yet built
InitIndex ==
    /\ pc = "index"
    /\ cedict_repo \in {[entries |-> Deduped(loaded)] : loaded \in SeqsUpTo(EntryPool, MaxEntries)}
    /\ parsed = NoResult
    /\ cedict_lines = <<>>
    /\ pinyin = <<>>
    /\ word = <<>>
    /\ VALID_SYLLABLES = ImportedInventory
    /\ numbered = NoResult
    /\ aligned = <<>>
    /\ EnrichIdle
    /\ BatchIdle
    /\ sections = NoResult
    /\ earlier = NoResult
    /\ search = NoResult
    /\ extract = NoResult
    /\ built = [NothingBuilt EXCEPT !.primary.entries = 1]

\* the first read of hanzi_syllable_map and word_syllable_map
BuildIndex ==
    /\ pc = "index"
    /\ cedict_repo' = CedictRepository(cedict_repo.entries)
    /\ pc' = "indexed"
    /\ built' = [built EXCEPT !.primary =
                     Read(@, cedict_repo, {"hanzi_syllable_map", "word_syllable_map"})]
    /\ UNCHANGED <<parsed, cedict_lines, sections, earlier, search, extract>>
    /\ UNCHANGED <<stage2vars, stage3vars, batchvars>>

NextIndex == BuildIndex

SpecIndex == InitIndex /\ [][NextIndex]_vars


-----------------------------------------------------------------------------
(* What the claims about stage 2 speak of *)

\* the Hanzi of the row's word, and the source alternates the loop works on
HanziChars == _extract_hanzi_chars(word)
SourceVariants == Variants(pinyin)
AllowedNow == [char \in SeqRange(HanziChars) |-> cedict_repo.hanzi_syllable_map[char]]

\* the letter a glyph of the source carries, its tone mark taken away
GlyphLetter ==
    [g \in Glyphs |-> IF g = "a4" THEN "a" ELSE IF g = "n2" THEN "n" ELSE g]

\* the tone-free letters of the tokens of one source alternate
SourceLetters(variant) ==
    LET tokens == VariantTokens(variant)
    IN  Flatten([i \in 1..Len(tokens) |->
                    [k \in 1..Len(tokens[i]) |-> GlyphLetter[tokens[i][k]]]])

\* Every complete segmentation of the tokens onto all the characters that obeys
\* the constraints of the search, with no limit on how many are enumerated:
\* each syllable is an inventory entry prefixing the remaining letters whose
\* tone marks agree and which the candidate filter accepts; before 儿 a
\* syllable ending in r whose stem and r5 are candidates takes the split form
\* when the split can be completed, and the unsplit form otherwise.
RECURSIVE ValidPartials(_, _, _)
ValidPartials(ctx, base_idx, char_idx) ==
    IF base_idx = Len(ctx.base) THEN {Partial(<<>>, char_idx)}
    ELSE IF char_idx >= Len(ctx.hanzi_chars) THEN {}
    ELSE UNION { LET end_idx == base_idx + Len(syllable)
                     tones == TonesIn(ctx.tone_marks, base_idx, end_idx)
                     tone == IF tones = {} THEN 5 ELSE CHOOSE t \in tones : TRUE
                     char == ctx.hanzi_chars[char_idx + 1]
                     stem == SubSeq(syllable, 1, Len(syllable) - 1)
                     splittable ==
                         /\ Last(syllable) = "r"
                         /\ char_idx + 1 < Len(ctx.hanzi_chars)
                         /\ ctx.hanzi_chars[char_idx + 2] = ER
                         /\ stem # <<>>
                         /\ stem \in allowed_bases(ctx.allowed, char)
                         /\ R5 \in ctx.allowed[ER]
                     viaSplit ==
                         IF splittable
                         THEN {Partial(<<Syl(stem, tone), R5>> \o p.syllables, p.next) :
                                  p \in ValidPartials(ctx, end_idx, char_idx + 2)}
                         ELSE {}
                     viaOne ==
                         IF Accepted(ctx, char, syllable)
                         THEN {Partial(<<Syl(syllable, tone)>> \o p.syllables, p.next) :
                                  p \in ValidPartials(ctx, end_idx, char_idx + 1)}
                         ELSE {}
                 IN  IF ~StartsWith(ctx.base, syllable, base_idx) \/ Cardinality(tones) > 1
                     THEN {}
                     ELSE IF viaSplit # {} THEN viaSplit ELSE viaOne
               : syllable \in InventorySet }

RECURSIVE ValidFrom(_, _, _)
ValidFrom(env, token_idx, char_idx) ==
    IF token_idx = Len(env.tokens)
        THEN (IF char_idx = Len(env.hanzi_chars) THEN {<<>>} ELSE {})
    ELSE UNION { {p.syllables \o rest : rest \in ValidFrom(env, token_idx + 1, p.next)} :
                    p \in ValidPartials(TokenCtx(env, env.tokens[token_idx + 1]), 0, char_idx) }

\* the valid segmentations of the i-th source alternate of the row
ValidSegmentations(i) ==
    ValidFrom([tokens |-> VariantTokens(SourceVariants[i]), hanzi_chars |-> HanziChars,
               allowed |-> AllowedNow, valid |-> VALID_SYLLABLES], 0, 0)

\* those whose tone-free tuple is among the word's dictionary tuples
InDictionary(i) ==
    LET candidates == MapGet(cedict_repo.word_syllable_map, HanziChars, {})
    IN  {v \in ValidSegmentations(i) : Bases(v) \in {Bases(seq) : seq \in candidates}}

Returned == pc = "returned" /\ HanziChars # <<>>

\* C1: every returned variant has exactly one numbered syllable per Hanzi of
\* the word; where 儿 takes the r split off the syllable before it (stem and
\* stem+r both inventory syllables), its position holds r5.
C1_OnePerCharacter ==
    Returned =>
        \A v \in 1..Len(numbered.variants) :
            LET variant == numbered.variants[v]
            IN  /\ Len(variant) = Len(HanziChars)
                /\ \A i \in 2..Len(variant) :
                      ( /\ HanziChars[i] = ER
                        /\ BaseOf(variant[i]) = sR
                        /\ Append(BaseOf(variant[i - 1]), "r") \in InventorySet )
                      => variant[i] = R5

C1_Witness ==
    /\ pc = "returned"
    /\ word = <<"A", "ER">>
    /\ pinyin = <<"n", "a4", "r">>
    /\ numbered.variants = << <<Syl(sNA, 4), R5>> >>

\* C2: round trip: a returned row has one variant per source alternate, and
\* the tone-free letters of each equal the tone-free letters of the tokens of
\* that alternate.
C2_RoundTrip ==
    Returned =>
        /\ Len(numbered.variants) = Len(SourceVariants)
        /\ \A v \in 1..Len(numbered.variants) :
              NumberedJoined(numbered.variants[v]) = SourceLetters(SourceVariants[v])

C2_Witness ==
    /\ pc = "returned"
    /\ word = <<"A", "B">>
    /\ pinyin = <<"n", "a4", " ", "a">>
    /\ numbered.variants = << <<Syl(sNA, 4), Syl(sA, 5)>> >>

\* C3: for an alternate with more than one valid segmentation, the alignment
\* returns exactly when one and only one of all the valid segmentations is in
\* the dictionary, and then returns that one; otherwise it raises the
\* ambiguity error.
C3_AmbiguityNeverGuessed ==
    \A i \in 1..Len(aligned) :
        Cardinality(ValidSegmentations(i)) > 1 =>
            IF Cardinality(InDictionary(i)) = 1
            THEN aligned[i].kind = "ok" /\ aligned[i].syllables \in InDictionary(i)
            ELSE aligned[i].kind = "raise" /\ aligned[i].error = "ambiguous"

\* C4: an alternate is reported as unalignable exactly when it has no valid
\* complete segmentation.
C4_UnalignableIffNone ==
    \A i \in 1..Len(aligned) :
        (aligned[i].kind = "raise" /\ aligned[i].error = "unable_to_align")
            <=> ValidSegmentations(i) = {}

\* C5: the outcome of the call is the same for every order of the equal-length
\* syllables of the inventory: the same numbered string, or a failure in each.
C5_Deterministic ==
    pc # "start" =>
        \A valid \in Inventories :
            LET other == pinyin_numbered(pinyin, word, cedict_repo, valid)
            IN  /\ other.kind = numbered.kind
                /\ numbered.kind = "ok" => other.variants = numbered.variants

C5_Witness ==
    /\ pc = "returned"
    /\ VALID_SYLLABLES # ImportedInventory
    /\ word = <<"A", "B">>
    /\ pinyin = <<"n", "a4", "a">>
    /\ numbered.variants = << <<Syl(sNA, 4), Syl(sA, 5)>> >>

-----------------------------------------------------------------------------
(* What the claims about stage 3 speak of *)

\* the alternates of the i-th row, and the candidate groups a dictionary has
\* for its lookup word
Alternates(i) == split_numbered_variants(rows[i].pinyin_numbered)
GroupsIn(repo, i) ==
    SeqRange(group_candidates(entries_for_word(repo.entries, _lookup_word(rows[i].word))))

\* the groups equal to an alternate, and those equal to one once the tone
\* digits are dropped on both sides
ExactGroups(repo, i) ==
    {g \in GroupsIn(repo, i) : TokensText(g.pinyin_tokens) \in SeqRange(Alternates(i))}
ToneGroups(repo, i) ==
    {g \in GroupsIn(repo, i) :
        \E k \in 1..Len(Alternates(i)) :
            Bases(g.pinyin_tokens) = tone_insensitive_tokens(Alternates(i)[k])}

\* the passes run for the rows reached so far: <<row, dictionary, result>>
PassesRun ==
    {<<i, cedict_repo, passes[i].primary>> : i \in 1..Len(passes)}
      \cup {<<i, patch_repo, passes[i].patch>> : i \in {j \in 1..Len(passes) : passes[j].patch # NotRun}}

\* C6: in every resolution pass, when a candidate group of the lookup word
\* equals an alternate of the row exactly, the pass selects such a group on the
\* exact branch and does not read the override table.
C6_ExactPrecedence ==
    \A p \in PassesRun :
        ExactGroups(p[2], p[1]) # {} =>
            /\ p[3].resolution # None
            /\ p[3].resolution.branch = "exact"
            /\ p[3].resolution.candidate \in ExactGroups(p[2], p[1])
            /\ ~p[3].consulted

\* a row one of whose alternates matches exactly while another matches two
\* candidates tone-insensitively, with an override waiting for the row
C6_Witness ==
    /\ Len(passes) >= 1
    /\ Len(Alternates(1)) = 2
    /\ Cardinality(ToneGroups(cedict_repo, 1)) = 2
    /\ Cardinality(ExactGroups(cedict_repo, 1)) = 1
    /\ OverrideKey(rows[1]) \in DOMAIN disambiguation_map
    /\ passes[1].primary.resolution.branch = "exact"

\* C7: the patch pass runs for a row only when the primary dictionary has no
\* entry for the lookup word or no candidate matching an alternate even
\* tone-insensitively; a row the primary pass resolves, or leaves unresolved
\* with several tone-insensitive candidates, gets no patch pass.
C7_PatchOnlyOnMiss ==
    \A i \in 1..Len(passes) :
        /\ passes[i].patch # NotRun =>
              /\ passes[i].primary.resolution = None
              /\ GroupsIn(cedict_repo, i) = {} \/ ToneGroups(cedict_repo, i) = {}
        /\ passes[i].primary.resolution # None => passes[i].patch = NotRun
        /\ ( /\ passes[i].primary.resolution = None
             /\ Alternates(i) # <<>>
             /\ Cardinality(ToneGroups(cedict_repo, i)) > 1 )
              => passes[i].patch = NotRun

\* a first row left unresolved with two candidates although the patch
\* dictionary has its exact pronunciation, then a row resolved from the patch
C7_Witness ==
    /\ Len(passes) = 2
    /\ passes[1].primary.resolution = None
    /\ Cardinality(ToneGroups(cedict_repo, 1)) = 2
    /\ ExactGroups(patch_repo, 1) # {}
    /\ passes[1].patch = NotRun
    /\ passes[2].patch # NotRun
    /\ passes[2].patch.resolution # None

\* the text c occurs in the text t
IsInfix(c, t) == \E k \in 0..(Len(t) - Len(c)) : SubSeq(t, k + 1, k + Len(c)) = c

\* C8: in a pass with no exact candidate and several tone-insensitive ones,
\* the row is resolved exactly when the override table maps (word as given,
\* numbered pinyin as produced) to the pronunciation of one of them, which is
\* then the one selected; an override naming none of them is named in the
\* note, and without an override the note names every candidate.
C8_OverrideDecides ==
    \A p \in PassesRun :
        LET i == p[1]
            candidates == {JoinedPinyin(g.pinyin_tokens) : g \in ToneGroups(p[2], i)}
            key == <<rows[i].word, rows[i].pinyin_numbered>>
            has == key \in DOMAIN disambiguation_map
        IN  ( /\ Alternates(i) # <<>>
              /\ ExactGroups(p[2], i) = {}
              /\ Cardinality(candidates) > 1 )
            =>
            /\ p[3].resolution # None <=> (has /\ disambiguation_map[key] \in candidates)
            /\ p[3].resolution # None =>
                  JoinedPinyin(p[3].resolution.candidate.pinyin_tokens) = disambiguation_map[key]
            /\ (has /\ disambiguation_map[key] \notin candidates) =>
                  /\ p[3].note.tag = "disambiguation_selected_not_in_candidates"
                  /\ p[3].note.text = disambiguation_map[key]
            /\ ~has =>
                  /\ p[3].note.tag = "tone_insensitive_multiple_candidates"
                  /\ \A c \in candidates : IsInfix(c, p[3].note.text)

\* a row given with its digit, resolved by the override kept under that word
C8_Witness ==
    /\ Len(passes) >= 1
    /\ rows[1].word = <<"A", "1">>
    /\ Cardinality(ToneGroups(cedict_repo, 1)) = 2
    /\ passes[1].primary.resolution # None
    /\ passes[1].primary.resolution.branch = "tone_insensitive_multi"
    /\ JoinedPinyin(passes[1].primary.resolution.candidate.pinyin_tokens)
          = disambiguation_map[OverrideKey(rows[1])]

\* the rows that stay unresolved after both dictionaries
Unresolved ==
    {i \in 1..Len(rows) :
        ResolveRow(rows[i], cedict_repo, patch_repo, disambiguation_map).resolution = None}

CallOver == pc \in {"returned", "raised"}

\* C9: without the tolerance flag the call raises exactly when a row is
\* unresolved after both dictionaries; with it the call does not raise over
\* unresolved rows, and returns each of them with the three enrichment fields
\* empty.
C9_ToleranceDecides ==
    CallOver =>
        IF ~allow_unresolved
        THEN pc = "raised" <=> Unresolved # {}
        ELSE /\ ~(pc = "raised" /\ outcome.error = "ValueError")
             /\ pc = "returned" =>
                   \A i \in Unresolved :
                       \E k \in 1..Len(outcome.enriched_rows) :
                           LET e == outcome.enriched_rows[k]
                           IN  /\ e.word_index = rows[i].word_index
                               /\ e.pinyin_cc_cedict = <<>>
                               /\ e.traditional_cc_cedict = <<>>
                               /\ e.definition_cc_cedict = <<>>

\* C10: a row whose word ends in a disambiguation digit is looked up without
\* the digit, and once the loop is past the row there is an EnrichedRow for it
\* that carries the pronunciation found and the word as given, digit included.
C10_DigitStrippedForLookup ==
    \A i \in 1..Len(passes) :
        LET given == rows[i].word
            plain == SubSeq(given, 1, Len(given) - 1)
            found == {g \in SeqRange(group_candidates(entries_for_word(cedict_repo.entries, plain))) :
                         TokensText(g.pinyin_tokens) \in SeqRange(Alternates(i))}
        IN  (Len(given) > 1 /\ IsDigit(Last(given)) /\ found # {}) =>
                /\ passes[i].primary.resolution # None
                /\ passes[i].primary.resolution.candidate \in found
                /\ \E k \in 1..Len(enriched_rows) :
                       /\ enriched_rows[k].word_index = rows[i].word_index
                       /\ enriched_rows[k].word = given
                       /\ enriched_rows[k].pinyin_cc_cedict
                             = JoinedPinyin(passes[i].primary.resolution.candidate.pinyin_tokens)

-----------------------------------------------------------------------------
(* What the further claims about the rows of stages 2 and 3 speak of *)

\* the alternates of the source pinyin: its "/"-delimited pieces that hold a
\* reading (a piece of blanks only holds none), and the letters of each
SourceAlternates ==
    SelectSeq(SplitSlash(pinyin, 1, <<>>), LAMBDA piece : \E k \in 1..Len(piece) : piece[k] # " ")
AlternateLetters(piece) ==
    LET glyphs == SelectSeq(piece, LAMBDA g : g # " ")
    IN  [k \in 1..Len(glyphs) |-> GlyphLetter[glyphs[k]]]

\* the "/"-separated variants of the numbered pinyin returned that hold syllables
NumberedVariants == SelectSeq(numbered.variants, LAMBDA v : v # <<>>)

\* C11: a returned numbered pinyin has as many "/"-separated variants as the
\* source pinyin has "/"-delimited alternates, in the same order: the v-th
\* variant spells the letters of the v-th alternate. Holds with and without
\* Hanzi in the word.
C11_VariantPerAlternate ==
    pc = "returned" =>
        /\ Len(NumberedVariants) = Len(SourceAlternates)
        /\ \A v \in 1..Len(NumberedVariants) :
              NumberedJoined(NumberedVariants[v]) = AlternateLetters(SourceAlternates[v])

\* two alternates that differ, numbered in the order of the source
C11_Witness ==
    /\ pc = "returned"
    /\ word = <<"A">>
    /\ pinyin = <<"a", "/", "n", "a4">>
    /\ numbered.variants = << <<Syl(sA, 5)>>, <<Syl(sNA, 4)>> >>

\* the three fields stage 3 adds to a row
ResolvedFields(e) == <<e.pinyin_cc_cedict, e.traditional_cc_cedict, e.definition_cc_cedict>>
AllEmpty(e) == \A k \in 1..3 : ResolvedFields(e)[k] = <<>>
AllFilled(e) == \A k \in 1..3 : ResolvedFields(e)[k] # <<>>

-----------------------------------------------------------------------------
(* Rows through both stages *)

RawFields == {"word_index", "level", "word", "pinyin", "part_of_speech"}
NumberedFields == RawFields \cup {"pinyin_numbered"}
EnrichedFields ==
    NumberedFields \cup {"pinyin_cc_cedict", "traditional_cc_cedict", "definition_cc_cedict"}

\* out has one row per row of in, in the same order, each with the fields
\* named and with those of in unchanged
Inherits(out, in, inherited, fields) ==
    /\ Len(out) = Len(in)
    /\ \A i \in 1..Len(in) :
          /\ DOMAIN out[i] = fields
          /\ \A f \in inherited : out[i][f] = in[i][f]

\* C13: when add_pinyin_numbered has returned, its rows are the raw rows in
\* order, each with the raw fields unchanged and pinyin_numbered added; when
\* enrich_with_cedict has returned, its rows are the stage-2 rows in order,
\* each with the six stage-2 fields unchanged and the three dictionary fields
\* added.
C13_RowsInherited ==
    /\ pc \in {"enrich", "returned"} => Inherits(rows, raw_rows, RawFields, NumberedFields)
    /\ pc = "returned" =>
          Inherits(outcome.enriched_rows, rows, NumberedFields, EnrichedFields)

C13_Witness ==
    /\ pc = "returned"
    /\ Len(raw_rows) = 2
    /\ raw_rows[1].word_index = <<"1", "0">>
    /\ raw_rows[1].word = <<"A", "1">>
    /\ raw_rows[2].word # raw_rows[1].word
    /\ Len(outcome.enriched_rows) = 2
    /\ outcome.enriched_rows[1].pinyin_numbered # <<>>

-----------------------------------------------------------------------------
(* The report of a call of enrich_with_cedict *)

\* how row i ends after both dictionaries
RowEnd(i) == ResolveRow(rows[i], cedict_repo, patch_repo, disambiguation_map)

BranchOf(i) == IF RowEnd(i).resolution = None THEN "none" ELSE RowEnd(i).resolution.branch

FromPatch(i) == RowEnd(i).resolution # None /\ RowEnd(i).patch # NotRun

\* the call returned a report whose collection holds a record of row i
Reported(collection, i) ==
    /\ pc = "returned"
    /\ \E k \in 1..Len(outcome.report[collection]) :
          outcome.report[collection][k].word_index = rows[i].word_index

\* the call ended otherwise than by the aggregated error over unresolved rows
EndedWithReportDue == CallOver /\ ~(pc = "raised" /\ outcome.error = "ValueError")

\* C14: for a call that ended without the aggregated error, each row is
\* recorded in the report by branch: in tone_insensitive_unique exactly when
\* resolved on the unique branch, in tone_insensitive_multi exactly when
\* resolved through an override, in patched exactly when resolved from the
\* patch dictionary, in no_match exactly when unresolved; no_match shares no
\* row with the other three and an exact match in the primary dictionary is
\* in none.
C14_ReportByBranch ==
    EndedWithReportDue =>
        \A i \in 1..Len(rows) :
            /\ Reported("tone_insensitive_unique", i) <=> BranchOf(i) = "tone_insensitive_unique"
            /\ Reported("tone_insensitive_multi", i) <=> BranchOf(i) = "tone_insensitive_multi"
            /\ Reported("patched", i) <=> FromPatch(i)
            /\ Reported("no_match", i) <=> BranchOf(i) = "none"
            /\ Reported("no_match", i) =>
                   /\ ~Reported("tone_insensitive_unique", i)
                   /\ ~Reported("tone_insensitive_multi", i)
                   /\ ~Reported("patched", i)
            /\ (BranchOf(i) = "exact" /\ ~FromPatch(i)) =>
                   \A c \in {"tone_insensitive_unique", "tone_insensitive_multi", "patched",
                              "no_match"} : ~Reported(c, i)

\* the i-th smallest member of a set of row positions
Nth(S, j) == CHOOSE i \in S : Cardinality({x \in S : x <= i}) = j

\* list holds one record per row whose position is in S, in row order
RecordsOf(list, S) ==
    /\ Len(list) = Cardinality(S)
    /\ \A j \in 1..Len(list) : list[j].word_index = rows[Nth(S, j)].word_index

\* the rows whose resolution the loop has been through
Classified == 1..Len(passes)

AggregatedError == pc = "raised" /\ outcome.error = "ValueError"

\* C15: the four collections hold, at every moment, the records of the rows
\* classified so far as the rows, the dictionaries and the override table
\* determine them, the tolerance flag having no part in it; and the
\* aggregated error is raised only when every row has been classified, with
\* every unresolved row of the batch collected.
C15_AccumulateThenCheck ==
    /\ RecordsOf(no_match, {i \in Classified : BranchOf(i) = "none"})
    /\ RecordsOf(tone_unique, {i \in Classified : BranchOf(i) = "tone_insensitive_unique"})
    /\ RecordsOf(tone_multi, {i \in Classified : BranchOf(i) = "tone_insensitive_multi"})
    /\ RecordsOf(patched, {i \in Classified : FromPatch(i)})
    /\ AggregatedError =>
          /\ row_idx = Len(rows)
          /\ Classified = 1..Len(rows)
          /\ Len(outcome.detail.preview) + outcome.detail.remaining = Cardinality(Unresolved)

C15_Witness ==
    /\ AggregatedError
    /\ Len(rows) = 2
    /\ Len(no_match) = 2
    /\ no_match[1].word_index = <<"1", "0">>
    /\ no_match[1].notes # no_match[2].notes

\* the indices of a list of records, as numbers
IndexNumbers(list) == [k \in 1..Len(list) |-> IntOf(list[k].word_index)]

Ascending(numbers) == \A j, k \in 1..Len(numbers) : j < k => numbers[j] <= numbers[k]

\* the same records, each as many times
SameRecords(a, b) ==
    /\ Len(a) = Len(b)
    /\ \A x \in SeqRange(a) \cup SeqRange(b) :
          Cardinality({k \in 1..Len(a) : a[k] = x}) = Cardinality({k \in 1..Len(b) : b[k] = x})

ReportCollections ==
    << <<"tone_insensitive_unique", "tone_unique_rows">>,
       <<"tone_insensitive_multi", "tone_multi_rows">>,
       <<"patched", "patched_rows">>, <<"no_match", "no_match_rows">> >>

\* C16 as stated: each collection of the report that enrich_with_cedict
\* returns is in ascending order of the numeric word index.
C16_ReportIndexSorted ==
    pc = "returned" =>
        \A c \in 1..Len(ReportCollections) :
            Ascending(IndexNumbers(outcome.report[ReportCollections[c][1]]))

\* C16, amended: each collection of the returned report holds its records in
\* the order of the input rows; it is the table build_report_md renders from
\* a collection that holds the same records in ascending order of the numeric
\* word index.
C16_SortedWhenRendered ==
    /\ pc = "returned" =>
          /\ RecordsOf(outcome.report.no_match, {i \in 1..Len(rows) : BranchOf(i) = "none"})
          /\ outcome.report.no_match = no_match
          /\ outcome.report.tone_insensitive_unique = tone_unique
          /\ outcome.report.tone_insensitive_multi = tone_multi
          /\ outcome.report.patched = patched
    /\ sections # NoResult =>
          \A c \in 1..Len(ReportCollections) :
              /\ Ascending(IndexNumbers(sections[ReportCollections[c][2]]))
              /\ SameRecords(sections[ReportCollections[c][2]],
                             outcome.report[ReportCollections[c][1]])

C16_Witness ==
    /\ sections # NoResult
    /\ Len(outcome.report.no_match) = 2
    /\ IndexNumbers(outcome.report.no_match) = <<10, 9>>
    /\ IndexNumbers(sections.no_match_rows) = <<9, 10>>

-----------------------------------------------------------------------------
(* Candidate groups *)

\* the entries a dictionary has for the lookup word of row i
EntriesIn(repo, i) == entries_for_word(repo.entries, _lookup_word(rows[i].word))

\* C17: the candidates of a row's lookup word, in either dictionary, are
\* grouped into exactly one group per distinct numbered tuple of its entries;
\* each group carries the written-form variants of its entries beside the
\* merged gloss, and the merged gloss holds every gloss of its entries and no
\* '|'.
C17_GroupsMerged ==
    \A i \in 1..Len(rows) : \A repo \in {cedict_repo, patch_repo} :
        /\ {g.pinyin_tokens : g \in GroupsIn(repo, i)}
              = {e.pinyin_tokens : e \in SeqRange(EntriesIn(repo, i))}
        /\ \A g, h \in GroupsIn(repo, i) : g.pinyin_tokens = h.pinyin_tokens => g = h
        /\ \A g \in GroupsIn(repo, i) :
              /\ \A e \in SeqRange(EntriesIn(repo, i)) :
                     e.pinyin_tokens = g.pinyin_tokens => IsInfix(e.definition, g.definition)
              /\ "|" \notin SeqRange(g.definition)
              /\ "traditional_forms" \in DOMAIN g

-----------------------------------------------------------------------------
(* A second call on the rows of the first *)

\* values an earlier call could have left in the dictionary fields of a row
EarlierFields == {text(Syl(sNA, 4)), text(Syl(sA, 5))}

\* C18: a second call of enrich_with_cedict on the rows a first call returned,
\* with the same dictionaries, override table and flag, returns rows equal to
\* them; and whatever a row carries in its three dictionary fields, its
\* resolution is that of the row without them.
C18_Idempotent ==
    /\ (pc = "returned" /\ earlier # NoResult) => outcome.enriched_rows = earlier.rows
    /\ \A i \in 1..Len(rows) : \A f \in EarlierFields :
          ResolveRow(EnrichedRow(rows[i], f, f, f), cedict_repo, patch_repo, disambiguation_map)
            = ResolveRow(EnrichedRow(rows[i], <<>>, <<>>, <<>>), cedict_repo, patch_repo,
                         disambiguation_map)

C18_Witness ==
    /\ pc = "returned"
    /\ earlier # NoResult
    /\ Len(earlier.rows) = 2
    /\ earlier.rows[1].pinyin_numbered # <<>>
    /\ earlier.rows[2].word # earlier.rows[1].word
    /\ Len(passes) = 2
    /\ outcome.enriched_rows = earlier.rows

-----------------------------------------------------------------------------
(* The entries of a dictionary line *)

\* the tuples a line offers: its bracket, and each bracket after "also pr."
\* whose tokens are all numbered syllables
WellFormed(bracket) ==
    bracket # <<>> /\ \A i \in 1..Len(bracket) : bracket[i].tone \in 1..5
LineParses(line) == line.kind = "entry" /\ WellFormed(line.pinyin_field)
LineTuples(line) ==
    {line.pinyin_field}
      \cup {b \in UNION {SeqRange(line.definition_payload[k].also_pr) :
                             k \in 1..Len(line.definition_payload)} : WellFormed(b)}

\* the triples (word, tuple, gloss) of a line: both written forms, each
\* tuple of the line, the count of tokens equal to the count of characters
LineTriples(line) ==
    IF ~LineParses(line) THEN {}
    ELSE {e \in [word : {line.trad, line.simp}, pinyin_tokens : LineTuples(line),
                 definition : {LineDefinition(line.definition_payload)}] :
             Len(e.pinyin_tokens) = Len(e.word)}

\* the lines the loop has been through
LinesRead == {cedict_lines[k] : k \in 1..parsed.upto}

\* C19: the entries parse_cedict_lines has produced are exactly the triples of
\* the lines it has read, and the repository keeps exactly these; so every
\* entry has as many tokens as its word has characters, and a parsed line
\* whose two written forms differ and are as long as its bracket has an entry
\* for each.
C19_EntriesOfLines ==
    pc \in {"parse", "loaded"} =>
        /\ SeqRange(parsed.entries) = UNION {LineTriples(line) : line \in LinesRead}
        /\ \A e \in SeqRange(parsed.entries) : Len(e.pinyin_tokens) = Len(e.word)
        /\ \A line \in LinesRead :
              ( /\ LineParses(line)
                /\ line.trad # line.simp
                /\ Len(line.trad) = Len(line.pinyin_field)
                /\ Len(line.simp) = Len(line.pinyin_field) )
              => \A w \in {line.trad, line.simp} :
                     \E e \in SeqRange(parsed.entries) :
                         e.word = w /\ e.pinyin_tokens = line.pinyin_field
        /\ pc = "loaded" =>
              /\ SeqRange(cedict_repo.entries) = SeqRange(parsed.entries)
              /\ Len(cedict_repo.entries) = Cardinality(SeqRange(parsed.entries))

C19_Witness ==
    /\ pc = "loaded"
    /\ Len(cedict_lines) = 2
    /\ cedict_lines[1].kind = "entry"
    /\ cedict_lines[1].trad # cedict_lines[1].simp
    /\ Cardinality(LineTriples(cedict_lines[1])) = 4
    /\ cedict_lines[2].kind = "entry"
    /\ Len(cedict_lines[2].trad) # Len(cedict_lines[2].simp)
    /\ Cardinality(LineTriples(cedict_lines[2])) = 2
    /\ Len(parsed.entries) = 7
    /\ Len(cedict_repo.entries) = 6
    /\ cedict_repo.entries[1].word = cedict_lines[1].simp

-----------------------------------------------------------------------------
(* A repository whose file is absent *)

Stage2Returned == pc \in {"enrich", "returned"}
Stage3Returned == pc = "returned"

NeedsPrimaryInStage2(i) == _extract_hanzi_chars(raw_rows[i].word) # <<>>
NeedsPrimaryInStage3(i) == split_numbered_variants(rows[i].pinyin_numbered) # <<>>

-----------------------------------------------------------------------------
(* The indices of a repository *)

\* the contents of an index of a repository whose file exists
IndexContents(repo, idx) ==
    IF idx \in {"entries", "entries_by_word"} THEN repo.entries ELSE repo[idx]

\* C21: each index of the primary and of the patch repository is built at
\* most once, however many rows and calls read it, and no step of
\* add_pinyin_numbered or enrich_with_cedict, returning or raising, changes
\* the contents of an index that has been built.
C21_IndicesBuiltOnce ==
    /\ [](\A idx \in Indices : built.primary[idx] <= 1 /\ built.patch[idx] <= 1)
    /\ [][ /\ \A idx \in Indices :
                built.primary[idx] > 0 =>
                    /\ built'.primary[idx] = built.primary[idx]
                    /\ IndexContents(cedict_repo', idx) = IndexContents(cedict_repo, idx)
           /\ \A idx \in Indices :
                built.patch[idx] > 0 =>
                    /\ built'.patch[idx] = built.patch[idx]
                    /\ IndexContents(patch_repo', idx) = IndexContents(patch_repo, idx) ]_vars

C21_Witness ==
    /\ pc = "raised"
    /\ Len(raw_rows) = 2
    /\ Len(passes) = 1
    /\ built.primary = [idx \in Indices |-> 1]
    /\ built.patch["entries_by_word"] = 1
    /\ built.patch["hanzi_syllable_map"] = 0

-----------------------------------------------------------------------------
(* Validation of the enriched rows *)

\* a written-form field made of one or more segments of Hanzi joined by "/"
HanziSegments(field) ==
    \A k \in 1..Len(SplitSlash(field, 1, <<>>)) :
        /\ SplitSlash(field, 1, <<>>)[k] # <<>>
        /\ \A c \in SeqRange(SplitSlash(field, 1, <<>>)[k]) : c \in Hanzi

Validated == pc \in {"returned", "raised"} /\ enriched_rows # <<>>

\* C22: without the tolerance flag the validation raises when the written
\* forms of a row are empty or hold an empty or non-Hanzi segment, and returns
\* when every row has its pinyin, its gloss and well-formed written forms;
\* with the flag it returns for rows whose three dictionary fields are empty.
C22_TraditionalValidated ==
    Validated =>
        /\ ( /\ ~allow_unresolved
             /\ \E i \in 1..Len(enriched_rows) :
                   ~HanziSegments(enriched_rows[i].traditional_cc_cedict) )
           => pc = "raised"
        /\ ( /\ ~allow_unresolved
             /\ \A i \in 1..Len(enriched_rows) :
                   /\ enriched_rows[i].pinyin_cc_cedict # <<>>
                   /\ enriched_rows[i].definition_cc_cedict # <<>>
                   /\ HanziSegments(enriched_rows[i].traditional_cc_cedict) )
           => pc = "returned"
        /\ ( /\ allow_unresolved
             /\ \A i \in 1..Len(enriched_rows) : AllEmpty(enriched_rows[i]) )
           => pc = "returned"

-----------------------------------------------------------------------------
(* The glosses of a dictionary line *)

\* the glosses of a line in source order with "/" between them
SlashDelimited(line) == Join(<<"/">>, Glosses(line.definition_payload))

\* C23: every entry parse_cedict_lines has produced comes from a line it has
\* read whose glosses, joined by "/" in source order, are the entry's
\* definition; the entries of both written forms of a line share it.
C23_GlossesSlashDelimited ==
    pc \in {"parse", "loaded"} =>
        \A e \in SeqRange(parsed.entries) :
            \E line \in LinesRead :
                /\ LineParses(line)
                /\ e.word \in {line.trad, line.simp}
                /\ e.pinyin_tokens \in LineTuples(line)
                /\ e.definition = SlashDelimited(line)

-----------------------------------------------------------------------------
(* The candidate filter of the alignment *)

\* the i-th syllable of a returned variant is, tone aside, a candidate of the
\* i-th character of the word
CandidateAt(variant, i) ==
    BaseOf(variant[i]) \in allowed_bases(AllowedNow, HanziChars[i])

BareNasal(syllable) == BaseOf(syllable) \in EXTRA_VALID_SYLLABLES

\* the character has no candidate at all in hanzi_syllable_map
Uncovered(char) ==
    \/ ~InMap(cedict_repo.hanzi_syllable_map, char)
    \/ cedict_repo.hanzi_syllable_map[char] = {}

\* C24 as stated: in every returned variant each syllable is a candidate of
\* the character at its position, or a bare-nasal interjection, or stands for
\* the only character of the word, a character without any dictionary
\* coverage.
C24_CandidateOfCharacter ==
    Returned =>
        \A v \in 1..Len(numbered.variants) :
            \A i \in 1..Len(numbered.variants[v]) :
                \/ CandidateAt(numbered.variants[v], i)
                \/ BareNasal(numbered.variants[v][i])
                \/ Len(HanziChars) = 1 /\ Uncovered(HanziChars[i])

\* C24 as the code has it: the filter is bypassed for every word of exactly
\* one character, covered or not; a character without coverage never gets as
\* far as the search, its row is refused as missing from the dictionary.
C24_CandidateUnlessSingleCharacter ==
    /\ Returned =>
          /\ \A i \in 1..Len(HanziChars) : ~Uncovered(HanziChars[i])
          /\ \A v \in 1..Len(numbered.variants) :
                \A i \in 1..Len(numbered.variants[v]) :
                    \/ CandidateAt(numbered.variants[v], i)
                    \/ BareNasal(numbered.variants[v][i])
                    \/ Len(HanziChars) = 1
    /\ (pc # "start" /\ \E i \in 1..Len(HanziChars) : Uncovered(HanziChars[i]))
          => numbered.kind = "raise" /\ numbered.error = "missing_mapping"

\* a one-character word returned with a syllable its character does not have
C24_Witness ==
    /\ pc = "returned"
    /\ word = <<"A">>
    /\ pinyin = <<"a">>
    /\ numbered.variants = << <<Syl(sA, 5)>> >>
    /\ ~CandidateAt(numbered.variants[1], 1)
    /\ ~Uncovered("A")

-----------------------------------------------------------------------------
(* The split of a syllable before the diminutive suffix *)

\* every complete alignment that obeys the letters, the token boundaries, the
\* tone marks and the candidate filter, a syllable before 儿 taken split or
\* unsplit alike
RECURSIVE EitherPartials(_, _, _)
EitherPartials(ctx, base_idx, char_idx) ==
    IF base_idx = Len(ctx.base) THEN {Partial(<<>>, char_idx)}
    ELSE IF char_idx >= Len(ctx.hanzi_chars) THEN {}
    ELSE UNION { LET end_idx == base_idx + Len(syllable)
                     tones == TonesIn(ctx.tone_marks, base_idx, end_idx)
                     tone == IF tones = {} THEN 5 ELSE CHOOSE t \in tones : TRUE
                     char == ctx.hanzi_chars[char_idx + 1]
                     stem == SubSeq(syllable, 1, Len(syllable) - 1)
                     splittable ==
                         /\ Last(syllable) = "r"
                         /\ char_idx + 1 < Len(ctx.hanzi_chars)
                         /\ ctx.hanzi_chars[char_idx + 2] = ER
                         /\ stem # <<>>
                         /\ stem \in allowed_bases(ctx.allowed, char)
                         /\ R5 \in ctx.allowed[ER]
                     viaSplit ==
                         IF splittable
                         THEN {Partial(<<Syl(stem, tone), R5>> \o p.syllables, p.next) :
                                  p \in EitherPartials(ctx, end_idx, char_idx + 2)}
                         ELSE {}
                     viaOne ==
                         IF Accepted(ctx, char, syllable)
                         THEN {Partial(<<Syl(syllable, tone)>> \o p.syllables, p.next) :
                                  p \in EitherPartials(ctx, end_idx, char_idx + 1)}
                         ELSE {}
                 IN  IF ~StartsWith(ctx.base, syllable, base_idx) \/ Cardinality(tones) > 1
                     THEN {}
                     ELSE viaSplit \cup viaOne
               : syllable \in InventorySet }

RECURSIVE EitherFrom(_, _, _)
EitherFrom(env, token_idx, char_idx) ==
    IF token_idx = Len(env.tokens)
        THEN (IF char_idx = Len(env.hanzi_chars) THEN {<<>>} ELSE {})
    ELSE UNION { {p.syllables \o rest : rest \in EitherFrom(env, token_idx + 1, p.next)} :
                    p \in EitherPartials(TokenCtx(env, env.tokens[token_idx + 1]), 0, char_idx) }

EitherSegmentations(i) ==
    EitherFrom([tokens |-> VariantTokens(SourceVariants[i]), hanzi_chars |-> HanziChars,
                allowed |-> AllowedNow, valid |-> VALID_SYLLABLES], 0, 0)

StemOf(syllable) == SubSeq(BaseOf(syllable), 1, Len(BaseOf(syllable)) - 1)

\* the i-th syllable ends in r, 儿 follows its character, and its stem and r5
\* are candidates of the two characters: the conditions of the split
ErhuaPossibleAt(variant, i) ==
    /\ i < Len(HanziChars)
    /\ HanziChars[i + 1] = ER
    /\ Last(BaseOf(variant[i])) = "r"
    /\ StemOf(variant[i]) # <<>>
    /\ StemOf(variant[i]) \in allowed_bases(AllowedNow, HanziChars[i])
    /\ R5 \in AllowedNow[ER]

\* the complete alignments that agree with the variant before position i and
\* have the split form of its i-th syllable at positions i and i + 1
SplitCompletions(v, variant, i) ==
    {w \in EitherSegmentations(v) :
        /\ Len(w) > i
        /\ SubSeq(w, 1, i - 1) = SubSeq(variant, 1, i - 1)
        /\ w[i] = Syl(StemOf(variant[i]), variant[i].tone)
        /\ w[i + 1] = R5}

\* C25: in a returned variant a syllable that meets the conditions of the
\* split stands unsplit only when the split cannot be completed to an
\* alignment of the whole word; whenever the split can be completed the two
\* positions hold the stem with the tone and r5.
C25_SplitPreferred ==
    Returned =>
        \A v \in 1..Len(numbered.variants) :
            \A i \in 1..Len(numbered.variants[v]) :
                ErhuaPossibleAt(numbered.variants[v], i)
                    => SplitCompletions(v, numbered.variants[v], i) = {}

\* the split returned although the dictionary lists the word unsplit and the
\* unsplit alignment is complete too; the same word with a second r, where the
\* split cannot be completed, is returned unsplit
C25_Witness ==
    /\ pc = "returned"
    /\ word = <<"A", "ER", "B">>
    /\ pinyin = <<"a", "r", "n", "a">>
    /\ numbered.variants = << <<Syl(sA, 5), R5, Syl(sNA, 5)>> >>
    /\ <<Syl(sAR, 5), Syl(sN, 5), Syl(sA, 5)>> \in EitherSegmentations(1)
    /\ <<Syl(sAR, 5), Syl(sN, 5), Syl(sA, 5)>> \in cedict_repo.word_syllable_map[word]
    /\ pinyin_numbered(<<"a", "r", "r", "a">>, word, cedict_repo, VALID_SYLLABLES).variants
          = << <<Syl(sAR, 5), R5, Syl(sA, 5)>> >>

-----------------------------------------------------------------------------
(* The tone digits of an alignment *)

\* the tone a glyph of the source carries, 0 for none
GlyphTone == [g \in Glyphs |-> IF g = "a4" THEN 4 ELSE IF g = "n2" THEN 2 ELSE 0]

\* the glyphs of the tokens of one source alternate, in order
SourceGlyphs(variant) == Flatten(VariantTokens(variant))

\* the glyphs before the k-th syllable of a variant
RECURSIVE LettersBefore(_, _)
LettersBefore(variant, k) ==
    IF k = 1 THEN 0 ELSE LettersBefore(variant, k - 1) + Len(BaseOf(variant[k - 1]))

\* the diacritic tones on the glyphs that the k-th syllable stands for
SpanTones(glyphs, variant, k) ==
    {GlyphTone[glyphs[j]] :
        j \in (LettersBefore(variant, k) + 1)..(LettersBefore(variant, k) + Len(BaseOf(variant[k])))}
      \ {0}

\* C26: in every returned variant the syllables stand for the glyphs of the
\* source alternate in order; the glyphs of one syllable carry at most one
\* diacritic tone, and the syllable's digit is that tone, or 5 when they carry
\* none (so the r5 of a split has 5 as well); whatever tones the dictionary
\* lists for the character play no part.
C26_ToneFromDiacritics ==
    Returned =>
        \A v \in 1..Len(numbered.variants) :
            /\ LettersBefore(numbered.variants[v], Len(numbered.variants[v]) + 1)
                  = Len(SourceGlyphs(SourceVariants[v]))
            /\ \A k \in 1..Len(numbered.variants[v]) :
                  /\ Cardinality(SpanTones(SourceGlyphs(SourceVariants[v]),
                                           numbered.variants[v], k)) <= 1
                  /\ numbered.variants[v][k].tone
                        \in (IF SpanTones(SourceGlyphs(SourceVariants[v]),
                                          numbered.variants[v], k) = {}
                             THEN {5}
                             ELSE SpanTones(SourceGlyphs(SourceVariants[v]),
                                            numbered.variants[v], k))

\* two marked glyphs side by side returned as two syllables with tones the
\* dictionary lacks, an unmarked syllable given 5 though the dictionary has it
\* with other tones only, and a marked stem before the r5 of a split
C26_Witness ==
    /\ pc = "returned"
    /\ word = <<"A", "B">>
    /\ pinyin = <<"n2", "a4">>
    /\ numbered.variants = << <<Syl(sN, 2), Syl(sA, 4)>> >>
    /\ pinyin_numbered(<<"n", "a">>, <<"A">>, cedict_repo, VALID_SYLLABLES).variants
          = << <<Syl(sNA, 5)>> >>
    /\ Syl(sNA, 5) \notin cedict_repo.hanzi_syllable_map["A"]
    /\ Syl(sA, 4) \notin cedict_repo.hanzi_syllable_map["B"]
    /\ pinyin_numbered(<<"n", "a4", "r">>, <<"A", "ER">>, cedict_repo, VALID_SYLLABLES).variants
          = << <<Syl(sNA, 4), R5>> >>

-----------------------------------------------------------------------------
(* The candidates of a character *)

Indexed == pc = "indexed"

\* the readings the single-character entries give a character
SinglePronunciations(char) ==
    {e.pinyin_tokens[1] : e \in {x \in SeqRange(cedict_repo.entries) :
                                     x.word = <<char>> /\ Len(x.pinyin_tokens) = 1}}

\* the syllables the multi-character entries give a character, in the order
\* the entries and their characters are gone through
RECURSIVE Contributions(_, _)
Contributions(multi, char) ==
    IF multi = <<>> THEN <<>>
    ELSE Flatten([i \in 1..Len(Head(multi).word) |->
                     IF Head(multi).word[i] = char THEN <<Head(multi).pinyin_tokens[i]>>
                     ELSE <<>>])
           \o Contributions(Tail(multi), char)

\* the first syllable of each base in a sequence of syllables
FirstOfEachBase(syllables) ==
    {syllables[k] : k \in {j \in 1..Len(syllables) :
                              \A h \in 1..(j - 1) : BaseOf(syllables[h]) # BaseOf(syllables[j])}}

SandhiProne == {"YI", "BU"}

\* C27: for a character other than 一 and 不 the candidates are all its
\* single-character readings and, for each base these lack, the first
\* syllable of that base that a multi-character entry gives the character;
\* so the candidates that only multi-character entries give share no base
\* with one another nor with a single-character reading.
C27_MultiCharNoSharedBase ==
    Indexed =>
        \A char \in DOMAIN cedict_repo.hanzi_syllable_map \ SandhiProne :
            /\ SinglePronunciations(char) \subseteq cedict_repo.hanzi_syllable_map[char]
            /\ cedict_repo.hanzi_syllable_map[char] \ SinglePronunciations(char)
                  = {s \in FirstOfEachBase(Contributions(MultiCharEntries(cedict_repo.entries), char)) :
                        BaseOf(s) \notin {BaseOf(t) : t \in SinglePronunciations(char)}}
            /\ \A s \in cedict_repo.hanzi_syllable_map[char] \ SinglePronunciations(char) :
                  \A t \in cedict_repo.hanzi_syllable_map[char] :
                      BaseOf(s) = BaseOf(t) => s = t

\* a character with two single readings, a word whose syllable repeats the
\* base of one of them with another tone and is left out, and a character
\* that has the first of two tones its words give it
C27_Witness ==
    /\ Indexed
    /\ cedict_repo.entries
          = << Entry(<<"A", "B">>, <<Syl(sNA, 2), Syl(sA, 4)>>, gloss(5)),
               Entry(<<"A">>, <<Syl(sNA, 4)>>, gloss(1)),
               Entry(<<"A", "B">>, <<Syl(sNA, 4), Syl(sA, 5)>>, gloss(4)) >>
    /\ cedict_repo.hanzi_syllable_map["A"] = {Syl(sNA, 4)}
    /\ cedict_repo.hanzi_syllable_map["B"] = {Syl(sA, 4)}

-----------------------------------------------------------------------------
(* The two characters with every tone *)

AllTones(base) == {Syl(base, tone) : tone \in 1..5}

\* C28: whatever the entries, none included, hanzi_syllable_map has yi1..yi5
\* among the candidates of 一 and bu1..bu5 among those of 不: the two
\* characters are never missing from the map, and their bases with every
\* tone pass the candidate filter.
C28_SandhiAllTones ==
    Indexed =>
        /\ InMap(cedict_repo.hanzi_syllable_map, "YI")
        /\ InMap(cedict_repo.hanzi_syllable_map, "BU")
        /\ AllTones(sYI) \subseteq cedict_repo.hanzi_syllable_map["YI"]
        /\ AllTones(<<"b", "u">>) \subseteq cedict_repo.hanzi_syllable_map["BU"]
        /\ sYI \in allowed_bases(cedict_repo.hanzi_syllable_map, "YI")
        /\ <<"b", "u">> \in allowed_bases(cedict_repo.hanzi_syllable_map, "BU")

\* the empty dictionary, whose map has the two characters and nothing else
C28_Witness ==
    /\ Indexed
    /\ cedict_repo.entries = <<>>
    /\ DOMAIN cedict_repo.hanzi_syllable_map = {"YI", "BU"}
    /\ cedict_repo.hanzi_syllable_map["YI"] = AllTones(sYI)
    /\ cedict_repo.hanzi_syllable_map["BU"] = AllTones(<<"b", "u">>)

-----------------------------------------------------------------------------
(* The search ends *)

\* a step of the per-token search moves the base-letter cursor forward and
\* not past the end of the token, and a step of the token-level search moves
\* the token cursor forward and not past the last token
CursorAdvances ==
    /\ (search.call.level = "syllable" /\ search'.call.level = "syllable")
         => /\ search'.call.token_idx = search.call.token_idx
            /\ search'.call.base_idx > search.call.base_idx
            /\ search'.call.base_idx <= Len(SearchCtx(search.call.token_idx).base)
            /\ search'.call.char_idx > search.call.char_idx
    /\ (search.call.level = "syllable" /\ search'.call.level = "token")
         => /\ search'.call.token_idx = search.call.token_idx + 1
            /\ search'.call.token_idx <= Len(SearchTokens)
    /\ (search.call.level = "token" /\ search'.call.level = "syllable")
         => search'.call.token_idx = search.call.token_idx /\ search'.call.base_idx = 0

\* C29: every syllable of the inventory has a letter, every call of the
\* search moves its cursor forward, every path of calls comes to a call that
\* makes no further call, and when the calls have returned pinyin_numbered
\* has returned a sequence or raised.
C29_SearchTerminates ==
    /\ [](\A k \in 1..Len(VALID_SYLLABLES) : VALID_SYLLABLES[k] # <<>>)
    /\ [][pc' = "search" => CursorAdvances]_vars
    /\ <>(pc # "search" \/ LeafCall)
    /\ [](pc # "search" => (pc \in {"returned", "raised"} /\ numbered.kind \in {"ok", "raise"}))

\* the search in the second token of a row, two letters into it, two
\* characters of the word taken
C29_Witness ==
    /\ pc = "search"
    /\ word = <<"A", "B", "A">>
    /\ pinyin = <<"n", " ", "a">>
    /\ search.call = SyllableCall(1, 1, 2)


=============================================================================
